---------------------------- MODULE Spec2Model ----------------------------
(***************************************************************************)
(* Model of lib/AST/Stmt.cpp, the statement nodes of the AST.              *)
(*                                                                         *)
(* The nodes are modelled one subsystem at a time, each with its own       *)
(* variables, initial condition and specification: the compound statement  *)
(* (CompoundSpec) and, last and largest, the GCC-style inline-assembly     *)
(* template: GCCAsmStmt::AnalyzeAsmString decomposes the template of an    *)
(* asm statement into literal and operand pieces, and                      *)
(* GCCAsmStmt::generateAsmString serialises the pieces again (AsmSpec).    *)
(* The variables of the subsystems a specification is not about stay at    *)
(* their initial values.                                                   *)
(*                                                                         *)
(* assert and llvm_unreachable are modelled as a build with assertions     *)
(* enabled has them: a failed assert or a reached llvm_unreachable ends    *)
(* the program, and nothing after it in the function is executed.          *)
(*                                                                         *)
(* A character is a one-character string, a string a sequence of           *)
(* characters, a pointer into the template its offset from StrStart.       *)
(***************************************************************************)
EXTENDS Integers, Sequences, FiniteSets, TLC

VARIABLES
    Str,               \* getAsmString()->getString(), the template
    isSimple,          \* GCCAsmStmt::isSimple()
    HasVariants,       \* !C.getTargetInfo().hasNoAsmVariants()
    OutputNames,       \* getOutputName(i), i < NumOutputs (<<>> = unnamed)
    OutputConstraints, \* getOutputConstraint(i)
    InputNames,        \* getInputName(i), i < NumInputs
    CurPtr,            \* CurPtr - StrStart
    CurStringPiece,    \* the literal being accumulated
    Pieces,            \* SmallVectorImpl<AsmStringPiece> &Pieces
    DiagOffs,          \* unsigned &DiagOffs, the caller's variable
    Ret,               \* the value AnalyzeAsmString returned
    AsmString,         \* the result of generateAsmString
    pc,                \* "scan", "returned" (AnalyzeAsmString), "generated"
    Iterations,        \* passes through the body of "while (1)" so far
    NumStmts,          \* CompoundStmtBits.NumStmts
    Body,              \* CompoundStmt::Body
    Supplied,          \* the statements handed to the last CompoundStmt call
    ContextCalls,      \* what the last CompoundStmt call asked of the ASTContext
    compoundPc,        \* last CompoundStmt call, "none", or "assert" (it failed)
    SubExprs,          \* SubExprs[VAR] (ForStmt: SubExprs[CONDVAR]) of each node
    CondVar,           \* the VarDecl last handed to each node
    condPc,            \* node of the last setConditionVariable call, or "none"
    atTryStmt,         \* ObjCAtTryStmt constructor argument
    CatchStmts,        \* ObjCAtTryStmt constructor argument, NumCatchStmts long
    atFinallyStmt,     \* ObjCAtTryStmt constructor argument
    TryStmts,          \* ObjCAtTryStmt::getStmts(), the trailing array
    NumCatchStmts,     \* ObjCAtTryStmt::NumCatchStmts
    HasFinally,        \* ObjCAtTryStmt::HasFinally
    TryLocEnd,         \* the value ObjCAtTryStmt::getLocEnd returned
    objcPc,            \* "none", "constructed", "getLocEnd"
    sClass,            \* Stmt::getStmtClass() of the node
    ownRange,          \* the node's class declares getSourceRange itself
    Dispatched,        \* what the dispatcher called last did
    dispatchPc,        \* the dispatcher called last, or "none"
    Initialized,       \* static bool Initialized of getStmtInfoTableEntry
    StmtClassInfo,     \* static StmtClassNameTable StmtClassInfo[]
    threadPc,          \* where each thread is in getStmtInfoTableEntry
    threadE,           \* Stmt::StmtClass E of each thread's call
    threadFill,        \* the next table write of each thread
    threadEntry,       \* StmtClassInfo[E] as each thread's call returned it
    StatisticsEnabled, \* Stmt::StatisticsEnabled
    StatsPrinted,      \* what the last PrintStats wrote: the totals
    LastName,          \* what the last getStmtClassName returned
    ClauseKind,        \* the clause class whose Create is called
    ClauseArgs,        \* the ArrayRef arguments of Create, VL included
    ClauseSizeof,      \* sizeof of the clause class
    ExprPtrSize,       \* sizeof(Expr *)
    ClauseMem,         \* bytes Create asked C.Allocate for
    ClauseEmptyMem,    \* bytes CreateEmpty asked C.Allocate for, 0 before
    NumVars,           \* varlist_size() of the clause Create constructed
    Trailing,          \* the pointers stored behind the clause, by slot
    SettersCalled,     \* the setters Create has called, in order
    clausePc,          \* "none", "call", "created", "assert"
    DirKind,           \* the directive class whose factories are called
    DirSizeof,         \* sizeof of the directive class
    StmtPtrSize,       \* sizeof(Stmt *), which is sizeof(OMPClause *)
    NumClauses,        \* Clauses.size() of Create, N of CreateEmpty
    CollapsedNum,      \* VarCnts.size() of Create, CollapsedNum of CreateEmpty
    DirCalled,         \* the factories called so far
    DirMem,            \* bytes each factory asked C.Allocate for
    DirWrites,         \* the pointers the setters called by Create stored
    tryBlock,          \* Create argument: the try block
    handlers,          \* Create argument: the handlers (numHandlers long)
    CXXTrySizeof,      \* sizeof(CXXTryStmt)
    SizeofStmt,        \* sizeof(Stmt)
    TryPtrSize,        \* sizeof(Stmt *)
    CXXTrySize,        \* Size, the bytes Create asked C.Allocate for
    NumHandlers,       \* NumHandlers of the node constructed
    CXXTryStmts,       \* Stmts, the pointers stored behind the node, by slot
    cxxTryPc,          \* "none", "call", "created", "empty"
    CapSizeofStmt,     \* sizeof(CapturedStmt)
    CapPtrSize,        \* sizeof(Stmt *)
    CapLayout,         \* sizeof(Capture) and llvm::alignOf<Capture>()
    Captures,          \* Create argument, NumCaptures long
    CaptureInits,      \* Create argument
    CapNonNull,        \* which of S, CD, RD Create is handed non-null
    CapDeserialized,   \* CreateDeserialized has been called
    CapMem,            \* Size each factory asked Context.Allocate for
    CapWrites,         \* the bytes the constructor of each factory wrote
    capturedPc         \* "none", "call", "created", "assert"

asmVars == <<Str, isSimple, HasVariants, OutputNames, OutputConstraints,
             InputNames, CurPtr, CurStringPiece, Pieces, DiagOffs, Ret,
             AsmString, pc, Iterations>>

compoundVars == <<NumStmts, Body, Supplied, ContextCalls, compoundPc>>

condVars == <<SubExprs, CondVar, condPc>>

objcVars ==
    <<atTryStmt, CatchStmts, atFinallyStmt, TryStmts, NumCatchStmts,
      HasFinally, TryLocEnd, objcPc>>

dispatchVars == <<sClass, ownRange, Dispatched, dispatchPc>>

tableVars ==
    <<Initialized, StmtClassInfo, threadPc, threadE, threadFill,
      threadEntry, StatisticsEnabled, StatsPrinted, LastName>>

clauseVars ==
    <<ClauseKind, ClauseArgs, ClauseSizeof, ExprPtrSize, ClauseMem,
      ClauseEmptyMem, NumVars, Trailing, SettersCalled, clausePc>>

directiveVars ==
    <<DirKind, DirSizeof, StmtPtrSize, NumClauses, CollapsedNum, DirCalled,
      DirMem, DirWrites>>

cxxtryVars ==
    <<tryBlock, handlers, CXXTrySizeof, SizeofStmt, TryPtrSize, CXXTrySize,
      NumHandlers, CXXTryStmts, cxxTryPc>>

capturedVars ==
    <<CapSizeofStmt, CapPtrSize, CapLayout, Captures, CaptureInits,
      CapNonNull, CapDeserialized, CapMem, CapWrites, capturedPc>>

\* the variables of the nodes other than the asm statement
astVars ==
    <<compoundVars, condVars, objcVars, dispatchVars, tableVars,
      clauseVars, directiveVars, cxxtryVars, capturedVars>>

vars == <<asmVars, astVars>>

\* what the operations of one node leave alone
compoundFrame ==
    <<asmVars, condVars, objcVars, dispatchVars, tableVars, clauseVars,
      directiveVars, cxxtryVars, capturedVars>>
condFrame ==
    <<asmVars, compoundVars, objcVars, dispatchVars, tableVars, clauseVars,
      directiveVars, cxxtryVars, capturedVars>>
objcFrame ==
    <<asmVars, compoundVars, condVars, dispatchVars, tableVars, clauseVars,
      directiveVars, cxxtryVars, capturedVars>>
dispatchFrame ==
    <<asmVars, compoundVars, condVars, objcVars, tableVars, clauseVars,
      directiveVars, cxxtryVars, capturedVars>>
tableFrame ==
    <<asmVars, compoundVars, condVars, objcVars, dispatchVars, clauseVars,
      directiveVars, cxxtryVars, capturedVars>>
clauseFrame ==
    <<asmVars, compoundVars, condVars, objcVars, dispatchVars, tableVars,
      directiveVars, cxxtryVars, capturedVars>>
directiveFrame ==
    <<asmVars, compoundVars, condVars, objcVars, dispatchVars, tableVars,
      clauseVars, cxxtryVars, capturedVars>>
cxxtryFrame ==
    <<asmVars, compoundVars, condVars, objcVars, dispatchVars, tableVars,
      clauseVars, directiveVars, capturedVars>>
capturedFrame ==
    <<asmVars, compoundVars, condVars, objcVars, dispatchVars, tableVars,
      clauseVars, directiveVars, cxxtryVars>>

stmtVars == <<Str, isSimple, HasVariants, OutputNames, OutputConstraints,
              InputNames>>

-----------------------------------------------------------------------------
(* Bounds of the model-checked inputs *)

\* longest freely enumerated template tail
MaxLen == 3

\* longest statement list handed to a CompoundStmt
MaxStmts == 5

\* most catch statements of an ObjCAtTryStmt
MaxCatchStmts == 2

\* values of getStmtClass() beyond the last enumerator
MaxStrayClasses == 2

\* most nodes counted by addStmtClass
MaxAdds == 2

\* longest array handed to the Create of a clause
MaxVars == 2

\* most clauses of a directive
MaxClauses == 2

\* deepest collapse of a loop directive
MaxCollapse == 2

\* most handlers of a try statement
MaxHandlers == 2

\* most captures of a captured statement
MaxCaptures == 2

-----------------------------------------------------------------------------
(* CompoundStmt: the statement count is stored in a bit-field next to the  *)
(* statement bits, the statements in a separately allocated array.         *)

\* a pointer to a child statement
StmtPool == {"s1", "s2"}

\* ArrayRef<Stmt*> Stmts, the statement lists handed to a CompoundStmt
StmtLists == UNION {[1..n -> StmtPool] : n \in 0..MaxStmts}

\* the width of the bit-field CompoundStmtBits.NumStmts
NumStmtsBits == 2

\* CompoundStmtBits.NumStmts = n keeps the low NumStmtsBits bits of n
StoredNumStmts(n) == n % (2 ^ NumStmtsBits)

\* Body = 0
NullBody == [null |-> TRUE, elts |-> <<>>]

\* new (C) Stmt*[n] filled with the first n statements of Stmts
NewBody(Stmts, n) == [null |-> FALSE, elts |-> [i \in 1..n |-> Stmts[i]]]

ConstructedBodyAllocated(Stmts) == NewBody(Stmts, Len(Stmts))

\* the Body the constructor leaves
ConstructedBody(Stmts) ==
    IF Len(Stmts) = 0 THEN NullBody ELSE NewBody(Stmts, Len(Stmts))

\* a call of the ASTContext: new (C) Stmt*[n] or C.Deallocate(Body)
ContextCall(call, arg) == [call |-> call, arg |-> arg]

\* if (this->Body) C.Deallocate(Body);
DeallocateBody(body) ==
    IF body.null THEN <<>> ELSE <<ContextCall("Deallocate", body.elts)>>

\* CompoundStmt::children(): child_range(Body, Body + NumStmts)
CompoundStmt_children ==
    IF Body.null THEN <<>> ELSE [i \in 1..NumStmts |-> Body.elts[i]]

CompoundStmt ==
    /\ compoundPc = "none"
    /\ \E Stmts \in StmtLists :
          /\ Supplied' = Stmts
          /\ NumStmts' = StoredNumStmts(Len(Stmts))
          /\ IF StoredNumStmts(Len(Stmts)) # Len(Stmts)
                THEN /\ compoundPc' = "assert"
                     /\ ContextCalls' = <<>>
                     /\ UNCHANGED Body
                ELSE /\ compoundPc' = "CompoundStmt"
                     /\ ContextCalls' =
                            IF Len(Stmts) = 0
                              THEN <<>>
                              ELSE <<ContextCall("new", Len(Stmts))>>
                     /\ Body' = ConstructedBody(Stmts)
    /\ UNCHANGED compoundFrame

setStmts ==
    /\ compoundPc \in {"CompoundStmt", "setStmts"}
    /\ \E Stmts \in StmtLists :
          /\ Supplied' = Stmts
          /\ NumStmts' = StoredNumStmts(Len(Stmts))
          /\ ContextCalls' =
                 DeallocateBody(Body) \o <<ContextCall("new", Len(Stmts))>>
          /\ Body' = NewBody(Stmts, Len(Stmts))
    /\ compoundPc' = "setStmts"
    /\ UNCHANGED compoundFrame

\* no CompoundStmt has been constructed
CompoundIdle ==
    /\ NumStmts = 0
    /\ Body = NullBody
    /\ Supplied = <<>>
    /\ ContextCalls = <<>>
    /\ compoundPc = "none"

-----------------------------------------------------------------------------
(* IfStmt, ForStmt, SwitchStmt, WhileStmt: the condition variable is kept  *)
(* as a DeclStmt in the node's SubExprs array.                             *)

\* the nodes with a condition variable
CondNodes == {"IfStmt", "ForStmt", "SwitchStmt", "WhileStmt"}

\* VarDecl *V = 0
NullVar == [null |-> TRUE, name |-> "", Begin |-> 0, End |-> 0]

\* the variable declarations, with V->getSourceRange()
VarDecls ==
    { [null |-> FALSE, name |-> "x", Begin |-> 1, End |-> 3],
      [null |-> FALSE, name |-> "y", Begin |-> 4, End |-> 9],
      [null |-> FALSE, name |-> "z", Begin |-> 5, End |-> 5] }

\* SubExprs[VAR] = 0
NullStmt == [null |-> TRUE, decl |-> NullVar, StartLoc |-> 0, EndLoc |-> 0]

NewDeclStmtEndFirst(V) ==
    [null |-> FALSE, decl |-> V, StartLoc |-> V.End, EndLoc |-> V.Begin]

\* new (C) DeclStmt(DeclGroupRef(V), VarRange.getBegin(), VarRange.getEnd())
NewDeclStmt(V) ==
    [null |-> FALSE, decl |-> V, StartLoc |-> V.Begin, EndLoc |-> V.End]

\* the slot setConditionVariable(C, V) leaves
ConditionVariableSlot(V) == IF V.null THEN NullStmt ELSE NewDeclStmt(V)

getConditionVariable(node) ==
    IF SubExprs[node].null THEN NullVar ELSE SubExprs[node].decl

setConditionVariable(node, V) ==
    /\ SubExprs' = [SubExprs EXCEPT ![node] = ConditionVariableSlot(V)]
    /\ CondVar' = [CondVar EXCEPT ![node] = V]
    /\ condPc' = node
    /\ UNCHANGED condFrame

IfStmt_setConditionVariable ==
    \E V \in VarDecls \cup {NullVar} : setConditionVariable("IfStmt", V)

ForStmt_setConditionVariable ==
    \E V \in VarDecls \cup {NullVar} : setConditionVariable("ForStmt", V)

SwitchStmt_setConditionVariable ==
    \E V \in VarDecls \cup {NullVar} : setConditionVariable("SwitchStmt", V)

WhileStmt_setConditionVariable ==
    \E V \in VarDecls \cup {NullVar} : setConditionVariable("WhileStmt", V)

\* the four nodes as their constructors leave them, each calling
\* setConditionVariable(C, var)
CondConstructed ==
    /\ CondVar \in [CondNodes -> VarDecls \cup {NullVar}]
    /\ SubExprs = [node \in CondNodes |-> ConditionVariableSlot(CondVar[node])]
    /\ condPc = "none"

\* no node with a condition variable has been constructed
CondIdle ==
    /\ CondVar = [node \in CondNodes |-> NullVar]
    /\ SubExprs = [node \in CondNodes |-> NullStmt]
    /\ condPc = "none"

-----------------------------------------------------------------------------
(* ObjCAtTryStmt: the try body, the catch statements and the finally       *)
(* statement, if any, follow the node in one array.                        *)

\* Stmt *atFinallyStmt = 0
NoStmt == [null |-> TRUE, LocEnd |-> 0]

\* the child statements, with their getLocEnd()
TryChildren == {[null |-> FALSE, LocEnd |-> e] : e \in {10, 20, 30}}

\* Stmt **CatchStmts, unsigned NumCatchStmts
CatchLists == UNION {[1..n -> TryChildren] : n \in 0..MaxCatchStmts}

\* getStmts()[I]
getStmt(I) == TryStmts[I + 1]

getTryBody == getStmt(0)

getCatchStmt(I) == getStmt(I + 1)

getFinallyStmt == IF HasFinally THEN getStmt(1 + NumCatchStmts) ELSE NoStmt

\* the array the constructor fills
ConstructedTryStmts(try, catches, finally) ==
    <<try>> \o catches \o (IF ~finally.null THEN <<finally>> ELSE <<>>)

ObjCAtTryStmt_getLocEndOfFirstCatch ==
    IF HasFinally THEN getFinallyStmt.LocEnd
    ELSE IF NumCatchStmts # 0 THEN getCatchStmt(0).LocEnd
    ELSE getTryBody.LocEnd

ObjCAtTryStmt_getLocEnd ==
    IF HasFinally THEN getFinallyStmt.LocEnd
    ELSE IF NumCatchStmts # 0 THEN getCatchStmt(NumCatchStmts - 1).LocEnd
    ELSE getTryBody.LocEnd

getLocEnd ==
    /\ objcPc = "constructed"
    /\ TryLocEnd' = ObjCAtTryStmt_getLocEnd
    /\ objcPc' = "getLocEnd"
    /\ UNCHANGED <<atTryStmt, CatchStmts, atFinallyStmt, TryStmts,
                   NumCatchStmts, HasFinally>>
    /\ UNCHANGED objcFrame

\* an ObjCAtTryStmt as its constructor leaves it
ObjCConstructed ==
    /\ atTryStmt \in TryChildren
    /\ CatchStmts \in CatchLists
    /\ atFinallyStmt \in TryChildren \cup {NoStmt}
    /\ NumCatchStmts = Len(CatchStmts)
    /\ HasFinally = ~atFinallyStmt.null
    /\ TryStmts = ConstructedTryStmts(atTryStmt, CatchStmts, atFinallyStmt)
    /\ TryLocEnd = 0
    /\ objcPc = "constructed"

\* no ObjCAtTryStmt has been constructed
ObjCIdle ==
    /\ atTryStmt = NoStmt
    /\ CatchStmts = <<>>
    /\ atFinallyStmt = NoStmt
    /\ NumCatchStmts = 0
    /\ HasFinally = FALSE
    /\ TryStmts = <<>>
    /\ TryLocEnd = 0
    /\ objcPc = "none"

-----------------------------------------------------------------------------
(* Stmt::children, getSourceRange, getLocStart, getLocEnd: a switch over   *)
(* the class of the node with one case for each class of StmtNodes.inc.    *)

\* STMT(type, base) of StmtNodes.inc, in the order of their enumerators
StmtNodes ==
    << "NullStmt", "CompoundStmt", "IfStmt", "SwitchStmt", "WhileStmt",
       "ForStmt", "GCCAsmStmt", "ObjCAtTryStmt", "CXXTryStmt",
       "CapturedStmt", "OMPParallelDirective" >>

NoStmtClass == 0

\* the values getStmtClass() can hold: NoStmtClass, one for each class and
\* values that are no enumerator
StmtClasses == 0..(Len(StmtNodes) + MaxStrayClasses)

\* no case of the switch is selected
NoCase == ""

CaseOfNext(tag) ==
    IF tag \in 1..Len(StmtNodes)
      THEN StmtNodes[(tag % Len(StmtNodes)) + 1]
      ELSE NoCase

\* the class whose case Stmt::type##Class the value selects
CaseOf(tag) == IF tag \in 1..Len(StmtNodes) THEN StmtNodes[tag] ELSE NoCase

\* llvm_unreachable(msg): the call does not return
Unreachable(msg) == [returned |-> FALSE, calls |-> {}, fatal |-> msg]

\* return of the value the listed member functions computed
ReturnOf(calls) == [returned |-> TRUE, calls |-> calls, fatal |-> ""]

Stmt_children(tag) ==
    IF tag = NoStmtClass THEN Unreachable("statement without class")
    ELSE IF CaseOf(tag) # NoCase
      THEN ReturnOf({<<CaseOf(tag), "children">>})
      ELSE Unreachable("unknown statement kind!")

\* getSourceRangeImpl<S>(stmt, &S::getSourceRange)
getSourceRangeImpl(S, own) ==
    IF own THEN {<<S, "getSourceRange">>}
           ELSE {<<S, "getLocStart">>, <<S, "getLocEnd">>}

Stmt_getSourceRange(tag, own) ==
    IF tag = NoStmtClass THEN Unreachable("statement without class")
    ELSE IF CaseOf(tag) # NoCase
      THEN ReturnOf(getSourceRangeImpl(CaseOf(tag), own))
      ELSE Unreachable("unknown statement kind!")

Stmt_getLocStart(tag) ==
    IF tag = NoStmtClass THEN Unreachable("statement without class")
    ELSE IF CaseOf(tag) # NoCase
      THEN ReturnOf({<<CaseOf(tag), "getLocStart">>})
      ELSE Unreachable("unknown statement kind")

Stmt_getLocEnd(tag) ==
    IF tag = NoStmtClass THEN Unreachable("statement without class")
    ELSE IF CaseOf(tag) # NoCase
      THEN ReturnOf({<<CaseOf(tag), "getLocEnd">>})
      ELSE Unreachable("unknown statement kind")

\* a call of one of the four on the node
Dispatch(name, result) ==
    /\ dispatchPc = "none"
    /\ Dispatched' = result
    /\ dispatchPc' = name
    /\ UNCHANGED <<sClass, ownRange>>
    /\ UNCHANGED dispatchFrame

CallChildren == Dispatch("children", Stmt_children(sClass))

CallGetSourceRange ==
    Dispatch("getSourceRange", Stmt_getSourceRange(sClass, ownRange))

CallGetLocStart == Dispatch("getLocStart", Stmt_getLocStart(sClass))

CallGetLocEnd == Dispatch("getLocEnd", Stmt_getLocEnd(sClass))

\* a node of any class, before a call
DispatchStart ==
    /\ sClass \in StmtClasses
    /\ ownRange \in BOOLEAN
    /\ Dispatched = ReturnOf({})
    /\ dispatchPc = "none"

\* no node to dispatch on
DispatchIdle ==
    /\ sClass = NoStmtClass
    /\ ownRange = FALSE
    /\ Dispatched = ReturnOf({})
    /\ dispatchPc = "none"

-----------------------------------------------------------------------------
(* getStmtInfoTableEntry: the table of class names and sizes is filled by  *)
(* the first call.  Initialized and StmtClassInfo are statics read and     *)
(* written without synchronisation; the steps of the threads interleave at *)
(* each read or write of them.                                             *)

Threads == {"t1", "t2"}

\* sizeof(CLASS), some positive size for each class
SizeOfClass(tag) == 8 * (tag + 2)

\* an entry of the zero-initialised static array
ZeroEntry == [Name |-> "", Counter |-> 0, Size |-> 0]

\* the table writes of the first call, in order: for each class its Name,
\* then its Size
TableWrites == 2 * Len(StmtNodes)

\* the table after the write number w
TableWrite(table, w) ==
    LET tag == (w + 1) \div 2
    IN  IF w % 2 = 1
          THEN [table EXCEPT ![tag].Name = StmtNodes[tag]]
          ELSE [table EXCEPT ![tag].Size = SizeOfClass(tag)]

\* a thread calls getStmtInfoTableEntry(E)
TableCall(t) ==
    /\ threadPc[t] \in {"idle", "returned"}
    /\ \E E \in 0..Len(StmtNodes) : threadE' = [threadE EXCEPT ![t] = E]
    /\ threadPc' = [threadPc EXCEPT ![t] = "test"]
    /\ UNCHANGED <<Initialized, StmtClassInfo, threadFill, threadEntry>>
    /\ UNCHANGED <<StatisticsEnabled, StatsPrinted, LastName>>
    /\ UNCHANGED tableFrame

\* if (Initialized)
TableTest(t) ==
    /\ threadPc[t] = "test"
    /\ threadPc' = [threadPc EXCEPT
                       ![t] = IF Initialized THEN "return" ELSE "set"]
    /\ UNCHANGED <<Initialized, StmtClassInfo, threadE, threadFill,
                   threadEntry>>
    /\ UNCHANGED <<StatisticsEnabled, StatsPrinted, LastName>>
    /\ UNCHANGED tableFrame

\* Initialized = true
TableSetInitialized(t) ==
    /\ threadPc[t] = "set"
    /\ Initialized' = TRUE
    /\ threadFill' = [threadFill EXCEPT ![t] = 1]
    /\ threadPc' = [threadPc EXCEPT ![t] = "fill"]
    /\ UNCHANGED <<StmtClassInfo, threadE, threadEntry>>
    /\ UNCHANGED <<StatisticsEnabled, StatsPrinted, LastName>>
    /\ UNCHANGED tableFrame

\* StmtClassInfo[...].Name = #CLASS or StmtClassInfo[...].Size = sizeof(CLASS)
TableFill(t) ==
    /\ threadPc[t] = "fill"
    /\ StmtClassInfo' = TableWrite(StmtClassInfo, threadFill[t])
    /\ IF threadFill[t] = TableWrites
         THEN /\ threadPc' = [threadPc EXCEPT ![t] = "return"]
              /\ UNCHANGED threadFill
         ELSE /\ threadFill' = [threadFill EXCEPT ![t] = @ + 1]
              /\ UNCHANGED threadPc
    /\ UNCHANGED <<Initialized, threadE, threadEntry>>
    /\ UNCHANGED <<StatisticsEnabled, StatsPrinted, LastName>>
    /\ UNCHANGED tableFrame

\* return StmtClassInfo[E], and the caller reads the entry
TableReturn(t) ==
    /\ threadPc[t] = "return"
    /\ threadEntry' = [threadEntry EXCEPT ![t] = StmtClassInfo[threadE[t]]]
    /\ threadPc' = [threadPc EXCEPT ![t] = "returned"]
    /\ UNCHANGED <<Initialized, StmtClassInfo, threadE, threadFill>>
    /\ UNCHANGED <<StatisticsEnabled, StatsPrinted, LastName>>
    /\ UNCHANGED tableFrame


\* the table after the writes from number w on
RECURSIVE TableFilled(_, _)
TableFilled(table, w) ==
    IF w > TableWrites THEN table
    ELSE TableFilled(TableWrite(table, w), w + 1)

\* a table whose names and sizes are written again on every call
getStmtInfoTableEntryRebuilt(table, initialized) ==
    TableFilled([tag \in DOMAIN table |-> ZeroEntry], 1)

\* getStmtInfoTableEntry run by one thread from call to return: the table
\* it leaves
getStmtInfoTableEntry(table, initialized) ==
    IF initialized THEN table ELSE TableFilled(table, 1)

\* the statistics have not been printed
NothingPrinted == [printed |-> FALSE, total |-> 0, bytes |-> 0]

\* the sum of the numbers from the place i on
RECURSIVE SumFrom(_, _)
SumFrom(numbers, i) ==
    IF i > Len(numbers) THEN 0 ELSE numbers[i] + SumFrom(numbers, i + 1)

\* the first loop of PrintStats: the counters of the entries with a name
TotalCount(table) ==
    SumFrom([i \in 1..(Len(StmtNodes) + 1) |->
                IF table[i - 1].Name = "" THEN 0 ELSE table[i - 1].Counter],
            1)

\* the second loop of PrintStats: Counter * Size of the entries with a name
\* and a counter
TotalBytes(table) ==
    SumFrom([i \in 1..(Len(StmtNodes) + 1) |->
                IF table[i - 1].Name = "" \/ table[i - 1].Counter = 0 THEN 0
                ELSE table[i - 1].Counter * table[i - 1].Size],
            1)

\* Stmt::getStmtClassName() of a node of the class tag
Stmt_getStmtClassName ==
    /\ \E tag \in 1..Len(StmtNodes) :
          /\ StmtClassInfo' = getStmtInfoTableEntry(StmtClassInfo, Initialized)
          /\ LastName' = StmtClassInfo'[tag].Name
    /\ Initialized' = TRUE
    /\ UNCHANGED <<StatisticsEnabled, StatsPrinted>>
    /\ UNCHANGED <<threadPc, threadE, threadFill, threadEntry>>
    /\ UNCHANGED tableFrame

\* Stmt::addStmtClass(s)
Stmt_addStmtClass ==
    /\ TotalCount(StmtClassInfo) < MaxAdds
    /\ \E s \in 1..Len(StmtNodes) :
          StmtClassInfo' =
              [getStmtInfoTableEntry(StmtClassInfo, Initialized)
                  EXCEPT ![s].Counter = @ + 1]
    /\ Initialized' = TRUE
    /\ UNCHANGED <<StatisticsEnabled, StatsPrinted, LastName>>
    /\ UNCHANGED <<threadPc, threadE, threadFill, threadEntry>>
    /\ UNCHANGED tableFrame

\* Stmt::PrintStats()
Stmt_PrintStats ==
    /\ StmtClassInfo' = getStmtInfoTableEntry(StmtClassInfo, Initialized)
    /\ Initialized' = TRUE
    /\ StatsPrinted' = [printed |-> TRUE,
                        total |-> TotalCount(StmtClassInfo'),
                        bytes |-> TotalBytes(StmtClassInfo')]
    /\ UNCHANGED <<StatisticsEnabled, LastName>>
    /\ UNCHANGED <<threadPc, threadE, threadFill, threadEntry>>
    /\ UNCHANGED tableFrame

\* Stmt::EnableStatistics()
Stmt_EnableStatistics ==
    /\ StatisticsEnabled' = TRUE
    /\ UNCHANGED <<Initialized, StmtClassInfo, StatsPrinted, LastName>>
    /\ UNCHANGED <<threadPc, threadE, threadFill, threadEntry>>
    /\ UNCHANGED tableFrame

\* the statics before the first call
TableIdle ==
    /\ Initialized = FALSE
    /\ StmtClassInfo = [tag \in 0..Len(StmtNodes) |-> ZeroEntry]
    /\ threadPc = [t \in Threads |-> "idle"]
    /\ threadE = [t \in Threads |-> 0]
    /\ threadFill = [t \in Threads |-> 0]
    /\ threadEntry = [t \in Threads |-> ZeroEntry]
    /\ StatisticsEnabled = FALSE
    /\ StatsPrinted = NothingPrinted
    /\ LastName = ""

-----------------------------------------------------------------------------
(* Target-dependent sizes *)

\* sizeof of a node class
HeaderSizes == {24, 28, 32}

\* sizeof of a pointer
PointerSizes == {4, 8}

\* llvm::RoundUpToAlignment(Value, Align)
RoundUpToAlignment(Value, Align) == ((Value + Align - 1) \div Align) * Align

-----------------------------------------------------------------------------
(* OpenMP clauses with a variable list: the variables and the arrays that  *)
(* run parallel to them are stored behind the clause, one after the other. *)

\* the clause classes whose Create takes arrays parallel to the variables
ClauseKinds ==
    {"OMPPrivateClause", "OMPFirstPrivateClause", "OMPLastPrivateClause",
     "OMPCopyinClause", "OMPCopyPrivateClause", "OMPReductionClause"}

\* the clause classes whose Create takes the variables only, and those
\* whose Create takes the variables and one more expression
VarListClauseKinds ==
    {"OMPSharedClause", "OMPFlushClause", "OMPUniformClause",
     "OMPLinearClause", "OMPAlignedClause"}

\* the ArrayRef parameters of Create
ClauseParams(kind) ==
    CASE kind \in VarListClauseKinds -> {"VL"}
      [] kind = "OMPPrivateClause" -> {"VL", "DefaultInits"}
      [] kind = "OMPFirstPrivateClause" -> {"VL", "PseudoVars", "Inits"}
      [] kind = "OMPLastPrivateClause" ->
            {"VL", "PseudoVars1", "PseudoVars2", "Assignments"}
      [] kind = "OMPCopyinClause" ->
            {"VL", "PseudoVars1", "PseudoVars2", "Assignments"}
      [] kind = "OMPCopyPrivateClause" ->
            {"VL", "PseudoVars1", "PseudoVars2", "Assignments"}
      [] kind = "OMPReductionClause" ->
            {"VL", "OpExprs", "HelperParams1", "HelperParams2",
             "DefaultInits"}

\* the pointer slots per variable that Create allocates
ClauseSlotsPerVar(kind) ==
    CASE kind \in VarListClauseKinds -> 1
      [] kind = "OMPPrivateClause" -> 2
      [] kind = "OMPFirstPrivateClause" -> 3
      [] kind = "OMPLastPrivateClause" -> 5
      [] kind = "OMPCopyinClause" -> 4
      [] kind = "OMPCopyPrivateClause" -> 4
      [] kind = "OMPReductionClause" -> 5

\* the pointer slots Create allocates on top of those per variable
ClauseExtraSlots(kind) ==
    IF kind \in {"OMPLinearClause", "OMPAlignedClause"} THEN 1 ELSE 0

\* a setter call of Create: the setter, the array it is handed, and the
\* setter of the array at whose end it writes ("" for the first slot)
SetterCall(setter, arg, after) ==
    [setter |-> setter, arg |-> arg, after |-> after]

\* the setter calls of Create, in order
ClauseSetters(kind) ==
    CASE kind \in {"OMPSharedClause", "OMPFlushClause",
                   "OMPUniformClause"} ->
            << SetterCall("setVars", "VL", "") >>
      [] kind = "OMPLinearClause" ->
            << SetterCall("setVars", "VL", ""),
               SetterCall("setStep", "St", "setVars") >>
      [] kind = "OMPAlignedClause" ->
            << SetterCall("setVars", "VL", ""),
               SetterCall("setAlignment", "A", "setVars") >>
      [] kind = "OMPPrivateClause" ->
            << SetterCall("setVars", "VL", ""),
               SetterCall("setDefaultInits", "DefaultInits", "setVars") >>
      [] kind = "OMPFirstPrivateClause" ->
            << SetterCall("setVars", "VL", ""),
               SetterCall("setPseudoVars", "PseudoVars", "setVars"),
               SetterCall("setInits", "Inits", "setPseudoVars") >>
      [] kind = "OMPLastPrivateClause" ->
            << SetterCall("setVars", "VL", ""),
               SetterCall("setPseudoVars1", "PseudoVars1", "setVars"),
               SetterCall("setPseudoVars2", "PseudoVars2", "setPseudoVars1"),
               SetterCall("setAssignments", "Assignments", "setDefaultInits"),
               SetterCall("setDefaultInits", "SmallVector",
                          "setPseudoVars2") >>
      [] kind \in {"OMPCopyinClause", "OMPCopyPrivateClause"} ->
            << SetterCall("setVars", "VL", ""),
               SetterCall("setPseudoVars1", "PseudoVars1", "setVars"),
               SetterCall("setPseudoVars2", "PseudoVars2", "setPseudoVars1"),
               SetterCall("setAssignments", "Assignments",
                          "setPseudoVars2") >>
      [] kind = "OMPReductionClause" ->
            << SetterCall("setVars", "VL", ""),
               SetterCall("setOpExprs", "OpExprs", "setVars"),
               SetterCall("setHelperParameters1st", "HelperParams1",
                          "setOpExprs"),
               SetterCall("setHelperParameters2nd", "HelperParams2",
                          "setHelperParameters1st"),
               SetterCall("setDefaultInits", "DefaultInits",
                          "setHelperParameters2nd") >>

\* the assertion Create makes before it allocates
ClauseCreateAsserts(kind, args) ==
    kind = "OMPReductionClause" => Len(args["VL"]) = Len(args["OpExprs"])

\* the setters that store one expression, not an array
SingleSetters == {"setStep", "setAlignment"}

\* the array a setter is handed: an argument of Create, the one expression
\* St or A, or llvm::SmallVector<Expr *, 8> DefaultInits(VL.size(), 0)
SetterArg(args, arg) ==
    CASE arg = "SmallVector" -> [i \in 1..Len(args["VL"]) |-> <<"0", 0>>]
      [] arg \in {"St", "A"} -> << <<arg, 1>> >>
      [] OTHER -> args[arg]

\* the slot a setter starts to write at: the end of the array before its own
RECURSIVE SetterDest(_, _, _)
SetterDest(kind, setter, N) ==
    LET call == CHOOSE c \in {ClauseSetters(kind)[i] :
                                 i \in 1..Len(ClauseSetters(kind))} :
                    c.setter = setter
    IN  IF call.after = "" THEN 0
        ELSE SetterDest(kind, call.after, N) + N

\* std::copy(Array.begin(), Array.end(), slot dest)
CopyTo(trailing, Array, dest) ==
    [slot \in DOMAIN trailing \cup {dest + i - 1 : i \in 1..Len(Array)} |->
        IF slot - dest + 1 \in 1..Len(Array)
          THEN Array[slot - dest + 1]
          ELSE trailing[slot]]

\* no slot behind the clause has been written
NoSlots == [slot \in {} |-> <<"0", 0>>]

\* the setter calls of Create from the call number next on, each an
\* assertion on the length of the array and then the copy
RECURSIVE CallSetters(_, _, _, _, _)
CallSetters(kind, args, N, next, st) ==
    IF next > Len(ClauseSetters(kind)) THEN st
    ELSE LET call == ClauseSetters(kind)[next]
             Array == SetterArg(args, call.arg)
             called == Append(st.called, call.setter)
         IN  IF call.setter \notin SingleSetters /\ Len(Array) # N
               THEN [st EXCEPT !.called = called, !.asserted = TRUE]
               ELSE CallSetters(kind, args, N, next + 1,
                        [trailing |-> CopyTo(st.trailing, Array,
                                             SetterDest(kind, call.setter, N)),
                         called |-> called,
                         asserted |-> FALSE])

\* room for the variables only
ClauseCreateSizeOneArray(kind, N) ==
    RoundUpToAlignment(ClauseSizeof, ExprPtrSize) + ExprPtrSize * N

\* bytes Create hands to C.Allocate
ClauseCreateSize(kind, N) ==
    RoundUpToAlignment(ClauseSizeof, ExprPtrSize)
        + ExprPtrSize * ClauseSlotsPerVar(kind) * N
        + ExprPtrSize * ClauseExtraSlots(kind)

\* bytes CreateEmpty hands to C.Allocate
ClauseCreateEmptySize(kind, N) ==
    IF kind \in {"OMPLinearClause", "OMPAlignedClause"}
      THEN RoundUpToAlignment(ClauseSizeof, ExprPtrSize)
               + ExprPtrSize * (N + 1)
      ELSE RoundUpToAlignment(ClauseSizeof, ExprPtrSize)
               + ExprPtrSize * N * ClauseSlotsPerVar(kind)

ClauseCreate ==
    /\ clausePc = "call"
    /\ IF ~ClauseCreateAsserts(ClauseKind, ClauseArgs)
         THEN /\ clausePc' = "assert"
              /\ UNCHANGED <<ClauseMem, NumVars, Trailing, SettersCalled>>
         ELSE LET N == Len(ClauseArgs["VL"])
                  st == CallSetters(ClauseKind, ClauseArgs, N, 1,
                            [trailing |-> NoSlots, called |-> <<>>,
                             asserted |-> FALSE])
              IN  /\ ClauseMem' = ClauseCreateSize(ClauseKind, N)
                  /\ NumVars' = N
                  /\ Trailing' = st.trailing
                  /\ SettersCalled' = st.called
                  /\ clausePc' = IF st.asserted THEN "assert" ELSE "created"
    /\ UNCHANGED <<ClauseKind, ClauseArgs, ClauseSizeof, ExprPtrSize,
                   ClauseEmptyMem>>
    /\ UNCHANGED clauseFrame

\* CreateEmpty(C, N) for as many variables as Create is given
ClauseCreateEmpty ==
    /\ clausePc \in {"call", "created"}
    /\ ClauseEmptyMem = 0
    /\ ClauseEmptyMem' =
           ClauseCreateEmptySize(ClauseKind, Len(ClauseArgs["VL"]))
    /\ UNCHANGED <<ClauseKind, ClauseArgs, ClauseSizeof, ExprPtrSize,
                   ClauseMem, NumVars, Trailing, SettersCalled, clausePc>>
    /\ UNCHANGED clauseFrame

\* the array of n expressions handed as the parameter p
ExprArray(p, n) == [i \in 1..n |-> <<p, i>>]

\* a call of Create of a clause class, with arrays of any lengths
ClauseCall ==
    /\ ClauseKind \in ClauseKinds
    /\ \E lens \in [ClauseParams(ClauseKind) -> 0..MaxVars] :
          ClauseArgs =
              [p \in ClauseParams(ClauseKind) |-> ExprArray(p, lens[p])]
    /\ ClauseSizeof \in HeaderSizes
    /\ ExprPtrSize \in PointerSizes
    /\ ClauseMem = 0
    /\ ClauseEmptyMem = 0
    /\ NumVars = 0
    /\ Trailing = NoSlots
    /\ SettersCalled = <<>>
    /\ clausePc = "call"

\* a call of Create of any clause class with a variable list, with arrays
\* as long as the variable list
ClauseSizeCall ==
    /\ ClauseKind \in ClauseKinds \cup VarListClauseKinds
    /\ \E n \in 0..MaxVars :
          ClauseArgs = [p \in ClauseParams(ClauseKind) |-> ExprArray(p, n)]
    /\ ClauseSizeof \in HeaderSizes
    /\ ExprPtrSize \in PointerSizes
    /\ ClauseMem = 0
    /\ ClauseEmptyMem = 0
    /\ NumVars = 0
    /\ Trailing = NoSlots
    /\ SettersCalled = <<>>
    /\ clausePc = "call"

\* no clause is being created
ClauseIdle ==
    /\ ClauseKind = ""
    /\ ClauseArgs = <<>>
    /\ ClauseSizeof = 0
    /\ ExprPtrSize = 0
    /\ ClauseMem = 0
    /\ ClauseEmptyMem = 0
    /\ NumVars = 0
    /\ Trailing = NoSlots
    /\ SettersCalled = <<>>
    /\ clausePc = "none"

-----------------------------------------------------------------------------
(* OpenMP directives: the clause pointers and then the associated          *)
(* statements and expressions are stored behind the directive.             *)

\* the directive classes with a Create and a CreateEmpty
DirectiveKinds ==
    {"OMPParallelDirective", "OMPForDirective", "OMPSimdDirective",
     "OMPForSimdDirective", "OMPSectionsDirective", "OMPSectionDirective",
     "OMPSingleDirective", "OMPTaskDirective", "OMPTaskyieldDirective",
     "OMPMasterDirective", "OMPCriticalDirective", "OMPBarrierDirective",
     "OMPTaskwaitDirective", "OMPTaskgroupDirective", "OMPAtomicDirective",
     "OMPFlushDirective", "OMPOrderedDirective"}

\* the classes whose Create takes ArrayRef<OMPClause *> Clauses
DirectivesWithClauses ==
    {"OMPParallelDirective", "OMPForDirective", "OMPSimdDirective",
     "OMPForSimdDirective", "OMPSectionsDirective", "OMPSingleDirective",
     "OMPTaskDirective", "OMPAtomicDirective", "OMPFlushDirective"}

\* the classes whose Create takes ArrayRef<Expr *> VarCnts
LoopDirectives ==
    {"OMPForDirective", "OMPSimdDirective", "OMPForSimdDirective"}

\* the classes whose Create takes nothing but the associated statement
StmtOnlyDirectives ==
    {"OMPSectionDirective", "OMPMasterDirective", "OMPCriticalDirective",
     "OMPTaskgroupDirective", "OMPOrderedDirective"}

\* the classes whose Create takes locations only
StandaloneDirectives ==
    {"OMPTaskyieldDirective", "OMPBarrierDirective", "OMPTaskwaitDirective"}

\* bytes Create hands to C.Allocate, for Clauses.size() and VarCnts.size()
DirectiveCreateSizeUnrounded(kind, Clauses, VarCnts) ==
    CASE kind \in LoopDirectives ->
            DirSizeof + StmtPtrSize * Clauses + StmtPtrSize * 5
                + StmtPtrSize * VarCnts
      [] kind = "OMPAtomicDirective" ->
            DirSizeof + StmtPtrSize * Clauses + StmtPtrSize * 4
      [] kind = "OMPFlushDirective" ->
            DirSizeof + StmtPtrSize * Clauses
      [] kind \in StmtOnlyDirectives ->
            DirSizeof + StmtPtrSize
      [] kind \in StandaloneDirectives -> DirSizeof
      [] OTHER ->
            DirSizeof + StmtPtrSize * Clauses + StmtPtrSize

DirectiveCreateSize(kind, Clauses, VarCnts) ==
    CASE kind \in LoopDirectives ->
            RoundUpToAlignment(DirSizeof, StmtPtrSize)
                + StmtPtrSize * Clauses + StmtPtrSize * 5
                + StmtPtrSize * VarCnts
      [] kind = "OMPAtomicDirective" ->
            RoundUpToAlignment(DirSizeof, StmtPtrSize)
                + StmtPtrSize * Clauses + StmtPtrSize * 4
      [] kind = "OMPFlushDirective" ->
            RoundUpToAlignment(DirSizeof, StmtPtrSize)
                + StmtPtrSize * Clauses
      [] kind \in StmtOnlyDirectives ->
            RoundUpToAlignment(DirSizeof, StmtPtrSize) + StmtPtrSize
      [] kind \in StandaloneDirectives -> DirSizeof
      [] OTHER ->
            RoundUpToAlignment(DirSizeof, StmtPtrSize)
                + StmtPtrSize * Clauses + StmtPtrSize

\* bytes CreateEmpty hands to C.Allocate, for N and CollapsedNum
DirectiveCreateEmptySize(kind, N, Collapsed) ==
    CASE kind \in LoopDirectives ->
            RoundUpToAlignment(DirSizeof, StmtPtrSize)
                + StmtPtrSize * N
                + StmtPtrSize * 5 + StmtPtrSize * Collapsed
      [] kind = "OMPAtomicDirective" ->
            RoundUpToAlignment(DirSizeof, StmtPtrSize)
                + StmtPtrSize * N + StmtPtrSize * 4
      [] kind = "OMPFlushDirective" ->
            RoundUpToAlignment(DirSizeof, StmtPtrSize) + StmtPtrSize * N
      [] kind \in StmtOnlyDirectives ->
            RoundUpToAlignment(DirSizeof, StmtPtrSize) + StmtPtrSize
      [] kind \in StandaloneDirectives -> DirSizeof
      [] OTHER ->
            RoundUpToAlignment(DirSizeof, StmtPtrSize)
                + StmtPtrSize * N + StmtPtrSize

\* a setter that stores one pointer in the slot of StmtAndExpressions
StmtSetter(setter, slot) == [setter |-> setter, slot |-> slot]

\* the setters of single pointers that Create calls, in order, each with
\* the slot of StmtAndExpressions it stores in
DirectiveStmtSetters(kind) ==
    CASE kind \in LoopDirectives ->
            << StmtSetter("setAssociatedStmt", 0),
               StmtSetter("setNewIterVar", 1),
               StmtSetter("setNewIterEnd", 2),
               StmtSetter("setInit", 3),
               StmtSetter("setFinal", 4) >>
      [] kind = "OMPAtomicDirective" ->
            << StmtSetter("setAssociatedStmt", 0),
               StmtSetter("setV", 1),
               StmtSetter("setX", 2),
               StmtSetter("setExpr", 3) >>
      [] kind \in StandaloneDirectives \cup {"OMPFlushDirective"} -> << >>
      [] OTHER -> << StmtSetter("setAssociatedStmt", 0) >>

\* the slot of StmtAndExpressions at which setCounters starts to copy
CountersSlot == 5

\* a pointer stored at a byte offset from the start of the directive
PtrWrite(setter, at) == [setter |-> setter, at |-> at]

\* the byte offset of Clauses, set by the constructor of the directive
ClausesOffset == RoundUpToAlignment(DirSizeof, StmtPtrSize)

\* the byte offset of StmtAndExpressions: the end of the N clause pointers
StmtAndExpressionsOffset(N) == ClausesOffset + StmtPtrSize * N

\* OMPExecutableDirective::setClauses: std::copy(CL.begin(), CL.end(),
\* Clauses), after the assertion that the constructor was given CL.size()
setClauses(CL) ==
    {PtrWrite("setClauses", ClausesOffset + StmtPtrSize * (i - 1)) :
        i \in 1..CL}

\* the pointers that the setters called by Create store
DirectiveSetterWrites(kind, Clauses, VarCnts) ==
    (IF kind \in DirectivesWithClauses THEN setClauses(Clauses) ELSE {})
    \cup
    {PtrWrite(DirectiveStmtSetters(kind)[i].setter,
              StmtAndExpressionsOffset(Clauses)
                  + StmtPtrSize * DirectiveStmtSetters(kind)[i].slot) :
        i \in 1..Len(DirectiveStmtSetters(kind))}
    \cup
    (IF kind \in LoopDirectives
       THEN {PtrWrite("setCounters",
                      StmtAndExpressionsOffset(Clauses)
                          + StmtPtrSize * (CountersSlot + i - 1)) :
                i \in 1..VarCnts}
       ELSE {})

\* Create with NumClauses clauses and CollapsedNum loop counters
DirectiveCreate ==
    /\ "Create" \notin DirCalled
    /\ DirCalled' = DirCalled \cup {"Create"}
    /\ DirMem' = [DirMem EXCEPT !["Create"] =
                      DirectiveCreateSize(DirKind, NumClauses, CollapsedNum)]
    /\ DirWrites' = DirectiveSetterWrites(DirKind, NumClauses, CollapsedNum)
    /\ UNCHANGED <<DirKind, DirSizeof, StmtPtrSize, NumClauses, CollapsedNum>>
    /\ UNCHANGED directiveFrame

\* CreateEmpty for NumClauses clauses and CollapsedNum loop counters
DirectiveCreateEmpty ==
    /\ "CreateEmpty" \notin DirCalled
    /\ DirCalled' = DirCalled \cup {"CreateEmpty"}
    /\ DirMem' = [DirMem EXCEPT !["CreateEmpty"] =
                      DirectiveCreateEmptySize(DirKind, NumClauses,
                                               CollapsedNum)]
    /\ UNCHANGED <<DirKind, DirSizeof, StmtPtrSize, NumClauses, CollapsedNum,
                   DirWrites>>
    /\ UNCHANGED directiveFrame

\* nothing has been allocated
NoDirMem == [f \in {"Create", "CreateEmpty"} |-> 0]

\* a directive class, a target, and the counts both factories are given
DirectiveStart ==
    /\ DirKind \in DirectiveKinds
    /\ DirSizeof \in HeaderSizes
    /\ StmtPtrSize \in PointerSizes
    /\ NumClauses \in
           IF DirKind \in DirectivesWithClauses THEN 0..MaxClauses ELSE {0}
    /\ CollapsedNum \in
           IF DirKind \in LoopDirectives THEN 0..MaxCollapse ELSE {0}
    /\ DirCalled = {}
    /\ DirMem = NoDirMem
    /\ DirWrites = {}

\* no directive is being created
DirectiveIdle ==
    /\ DirKind = ""
    /\ DirSizeof = 0
    /\ StmtPtrSize = 0
    /\ NumClauses = 0
    /\ CollapsedNum = 0
    /\ DirCalled = {}
    /\ DirMem = NoDirMem
    /\ DirWrites = {}

-----------------------------------------------------------------------------
(* CXXTryStmt: the try block and the handlers are stored behind the node.  *)

\* sizeof(Stmt), the size of the base object of a node
StmtSizes == {4, 8, 16}

\* the handlers a try statement can be given
HandlerPool == {"h1", "h2"}

HandlerLists == UNION {[1..n -> HandlerPool] : n \in 0..MaxHandlers}

\* no slot behind the node has been written
NoTrySlots == [slot \in {} |-> ""]

\* Size of both overloads of Create, for numHandlers handlers
CXXTryStmt_CreateSize(numHandlers) ==
    CXXTrySizeof + (numHandlers + 1) * SizeofStmt

\* the constructor: Stmts[0] = tryBlock; std::copy(handlers.begin(),
\* handlers.end(), Stmts + 1)
CXXTryStmt_Stmts(block, hs) ==
    [slot \in 0..Len(hs) |-> IF slot = 0 THEN block ELSE hs[slot]]

\* CXXTryStmt::Create(C, tryLoc, tryBlock, handlers)
CXXTryStmt_Create ==
    /\ cxxTryPc = "call"
    /\ CXXTrySize' = CXXTryStmt_CreateSize(Len(handlers))
    /\ NumHandlers' = Len(handlers)
    /\ CXXTryStmts' = CXXTryStmt_Stmts(tryBlock, handlers)
    /\ cxxTryPc' = "created"
    /\ UNCHANGED <<tryBlock, handlers, CXXTrySizeof, SizeofStmt, TryPtrSize>>
    /\ UNCHANGED cxxtryFrame

\* CXXTryStmt::Create(C, Empty, numHandlers), numHandlers = handlers.size()
CXXTryStmt_CreateEmpty ==
    /\ cxxTryPc = "call"
    /\ CXXTrySize' = CXXTryStmt_CreateSize(Len(handlers))
    /\ NumHandlers' = Len(handlers)
    /\ cxxTryPc' = "empty"
    /\ UNCHANGED <<tryBlock, handlers, CXXTrySizeof, SizeofStmt, TryPtrSize,
                   CXXTryStmts>>
    /\ UNCHANGED cxxtryFrame

\* a call of Create on some target
CXXTryStart ==
    /\ tryBlock = "block"
    /\ handlers \in HandlerLists
    /\ CXXTrySizeof \in HeaderSizes
    /\ SizeofStmt \in StmtSizes
    /\ TryPtrSize \in PointerSizes
    /\ CXXTrySize = 0
    /\ NumHandlers = 0
    /\ CXXTryStmts = NoTrySlots
    /\ cxxTryPc = "call"

\* no try statement is being created
CXXTryIdle ==
    /\ tryBlock = ""
    /\ handlers = <<>>
    /\ CXXTrySizeof = 0
    /\ SizeofStmt = 0
    /\ TryPtrSize = 0
    /\ CXXTrySize = 0
    /\ NumHandlers = 0
    /\ CXXTryStmts = NoTrySlots
    /\ cxxTryPc = "none"

-----------------------------------------------------------------------------
(* CapturedStmt: the capture initialisers, the captured statement and then *)
(* the Capture objects are stored behind the node.                         *)

\* sizeof(Capture) and llvm::alignOf<Capture>() of a target
CaptureLayouts ==
    {[size |-> 8, align |-> 4], [size |-> 8, align |-> 8],
     [size |-> 16, align |-> 8]}

\* the offset without the realignment
FirstCaptureOffsetUnaligned(N) == CapSizeofStmt + CapPtrSize * (N + 1)

\* FirstCaptureOffset of getStoredCaptures, for NumCaptures = N
FirstCaptureOffset(N) ==
    RoundUpToAlignment(CapSizeofStmt + CapPtrSize * (N + 1), CapLayout.align)

\* Size of Create, for Captures.size() = N
CapturedStmt_CreateSize(N) ==
    IF N # 0
      THEN RoundUpToAlignment(CapSizeofStmt + CapPtrSize * (N + 1),
                              CapLayout.align)
               + CapLayout.size * N
      ELSE CapSizeofStmt + CapPtrSize * (N + 1)

\* Size of CreateDeserialized, for NumCaptures = N
CapturedStmt_CreateDeserializedSize(N) ==
    IF N > 0
      THEN RoundUpToAlignment(CapSizeofStmt + CapPtrSize * (N + 1),
                              CapLayout.align)
               + CapLayout.size * N
      ELSE CapSizeofStmt + CapPtrSize * (N + 1)

\* bytes [at, at + size) of the node's memory written with a value
ByteWrite(what, at, size) == [what |-> what, at |-> at, size |-> size]

\* the offset of getStoredStmts()[I]
StoredStmtOffset(I) == CapSizeofStmt + CapPtrSize * I

\* the constructor CapturedStmt(S, Kind, Captures, CaptureInits, CD, RD),
\* once its assertions have passed
CapturedStmt_Stores(Inits, Caps) ==
    {ByteWrite(Inits[I], StoredStmtOffset(I - 1), CapPtrSize) :
        I \in 1..Len(Caps)}
    \cup {ByteWrite("S", StoredStmtOffset(Len(Caps)), CapPtrSize)}
    \cup {ByteWrite(Caps[I],
                    FirstCaptureOffset(Len(Caps)) + CapLayout.size * (I - 1),
                    CapLayout.size) :
             I \in 1..Len(Caps)}

\* CapturedStmt::Create(Context, S, Kind, Captures, CaptureInits, CD, RD)
CapturedStmt_Create ==
    /\ capturedPc = "call"
    /\ IF Len(CaptureInits) # Len(Captures)
         THEN /\ capturedPc' = "assert"
              /\ UNCHANGED <<CapMem, CapWrites>>
         ELSE /\ CapMem' = [CapMem EXCEPT
                               !["Create"] =
                                   CapturedStmt_CreateSize(Len(Captures))]
              /\ IF CapNonNull = {"S", "CD", "RD"}
                   THEN /\ CapWrites' =
                               [CapWrites EXCEPT
                                   !["Create"] =
                                       CapturedStmt_Stores(CaptureInits,
                                                           Captures)]
                        /\ capturedPc' = "created"
                   ELSE /\ capturedPc' = "assert"
                        /\ UNCHANGED CapWrites
    /\ UNCHANGED <<CapSizeofStmt, CapPtrSize, CapLayout, Captures,
                   CaptureInits, CapNonNull, CapDeserialized>>
    /\ UNCHANGED capturedFrame

\* CapturedStmt::CreateDeserialized(Context, NumCaptures), for as many
\* captures as Create is given; the constructor clears the slot of the
\* captured statement
CapturedStmt_CreateDeserialized ==
    /\ ~CapDeserialized
    /\ CapDeserialized' = TRUE
    /\ CapMem' = [CapMem EXCEPT
                     !["CreateDeserialized"] =
                         CapturedStmt_CreateDeserializedSize(Len(Captures))]
    /\ CapWrites' = [CapWrites EXCEPT
                        !["CreateDeserialized"] =
                            {ByteWrite("0", StoredStmtOffset(Len(Captures)),
                                       CapPtrSize)}]
    /\ UNCHANGED <<CapSizeofStmt, CapPtrSize, CapLayout, Captures,
                   CaptureInits, CapNonNull, capturedPc>>
    /\ UNCHANGED capturedFrame

\* nothing has been allocated or written
NoCapMem == [f \in {"Create", "CreateDeserialized"} |-> 0]

NoCapWrites == [f \in {"Create", "CreateDeserialized"} |-> {}]

\* the captures and initialisers of a call
CaptureList(what, n) == [I \in 1..n |-> what]

\* a call of Create on some target
CapturedStart ==
    /\ CapSizeofStmt \in HeaderSizes
    /\ CapPtrSize \in PointerSizes
    /\ CapLayout \in CaptureLayouts
    /\ \E n \in 0..MaxCaptures : Captures = CaptureList("Capture", n)
    /\ \E n \in 0..MaxCaptures : CaptureInits = CaptureList("Init", n)
    /\ CapNonNull \in SUBSET {"S", "CD", "RD"}
    /\ CapDeserialized = FALSE
    /\ CapMem = NoCapMem
    /\ CapWrites = NoCapWrites
    /\ capturedPc = "call"

\* no captured statement is being created
CapturedIdle ==
    /\ CapSizeofStmt = 0
    /\ CapPtrSize = 0
    /\ CapLayout = [size |-> 0, align |-> 0]
    /\ Captures = <<>>
    /\ CaptureInits = <<>>
    /\ CapNonNull = {}
    /\ CapDeserialized = FALSE
    /\ CapMem = NoCapMem
    /\ CapWrites = NoCapWrites
    /\ capturedPc = "none"

-----------------------------------------------------------------------------
(* Characters *)

DigitChars == <<"0", "1", "2", "3", "4", "5", "6", "7", "8", "9">>

Letters ==
    {"a", "b", "c", "d", "e", "f", "g", "h", "i", "j", "k", "l", "m",
     "n", "o", "p", "q", "r", "s", "t", "u", "v", "w", "x", "y", "z",
     "A", "B", "C", "D", "E", "F", "G", "H", "I", "J", "K", "L", "M",
     "N", "O", "P", "Q", "R", "S", "T", "U", "V", "W", "X", "Y", "Z"}

isDigit(c) == \E d \in 1..Len(DigitChars) : DigitChars[d] = c

isLetter(c) == c \in Letters

\* (*CurPtr) - '0' for a digit character
DigitValue(c) == (CHOOSE d \in 1..Len(DigitChars) : DigitChars[d] = c) - 1

\* '\0', the modifier of an operand piece that has none
NoModifier == "\\0"

-----------------------------------------------------------------------------
(* unsigned arithmetic: a 32-bit value is kept as two 16-bit limbs *)

LimbBase == 65536

U32(n) == [hi |-> 0, lo |-> n]

\* N = N*10 + d, modulo 2^32
MulAdd10(N, d) ==
    LET lo == N.lo * 10 + d
        hi == N.hi * 10 + (lo \div LimbBase)
    IN  [hi |-> hi % LimbBase, lo |-> lo % LimbBase]

\* N >= k for an unsigned k below 2^16
U32AtLeast(N, k) == N.hi > 0 \/ N.lo >= k

-----------------------------------------------------------------------------
(* AsmStringPiece *)

StringPiece(S) ==
    [isString |-> TRUE, Str |-> S, OperandNo |-> 0, Modifier |-> NoModifier]

OperandPiece(OpNo, Mod) ==
    [isString |-> FALSE, Str |-> <<>>, OperandNo |-> OpNo, Modifier |-> Mod]

-----------------------------------------------------------------------------
(* The statement's operands *)

getNumOutputs == Len(OutputNames)

getNumInputs == Len(InputNames)

isOutputPlusConstraint(i) == OutputConstraints[i + 1][1] = "+"

getNumPlusOperands ==
    Cardinality({i \in 0..(getNumOutputs - 1) : isOutputPlusConstraint(i)})

getOutputName(i) == OutputNames[i + 1]

getInputName(i) == InputNames[i + 1]

NotFound == -1

\* the first position i >= from whose name is SymbolicName, or Len(names)
RECURSIVE ScanNames(_, _, _)
ScanNames(names, from, name) ==
    IF from = Len(names) \/ names[from + 1] = name
    THEN from
    ELSE ScanNames(names, from + 1, name)

\* inputs are numbered after the "+" outputs as well
getNamedOperandPlus(name) ==
    LET o == ScanNames(OutputNames, 0, name)
        i == ScanNames(InputNames, 0, name)
    IN  IF o # getNumOutputs THEN o
        ELSE IF i # getNumInputs THEN getNumOutputs + getNumPlusOperands + i
        ELSE NotFound

getNamedOperand(name) ==
    LET NumPlusOperands == 0
        o == ScanNames(OutputNames, 0, name)
        i == ScanNames(InputNames, 0, name)
    IN  IF o # getNumOutputs THEN o
        ELSE IF i # getNumInputs THEN getNumOutputs + NumPlusOperands + i
        ELSE NotFound

-----------------------------------------------------------------------------
(* Diagnostic kinds returned by AnalyzeAsmString *)

NoError == "0"
err_asm_invalid_escape == "err_asm_invalid_escape"
err_asm_invalid_operand_number == "err_asm_invalid_operand_number"
err_asm_unterminated_symbolic_operand_name ==
    "err_asm_unterminated_symbolic_operand_name"
err_asm_empty_symbolic_operand_name == "err_asm_empty_symbolic_operand_name"
err_asm_unknown_symbolic_operand_name ==
    "err_asm_unknown_symbolic_operand_name"

NotReturned == "none"

-----------------------------------------------------------------------------
(* Scanning helpers *)

StrEnd == Len(Str)

CharAt(off) == Str[off + 1]

\* "$" is copied like any other character
SimpleTextCopied(c) == <<c>>

\* lines 455-462: what one character of a simple template adds to Result
SimpleText(c) == IF c = "$" THEN <<"$", "$">> ELSE <<c>>

\* the variant escapes on every target
LiteralTextVariantsAlways(c, variants) ==
    CASE c = "$" -> <<"$", "$">>
      [] c = "{" -> <<"$", "(">>
      [] c = "|" -> <<"$", "|">>
      [] c = "}" -> <<"$", ")">>
      [] OTHER   -> <<c>>

\* lines 484-492: what one character outside an escape adds to CurStringPiece
LiteralText(c, variants) ==
    CASE c = "$" -> <<"$", "$">>
      [] c = "{" -> IF variants THEN <<"$", "(">> ELSE <<"{">>
      [] c = "|" -> IF variants THEN <<"$", "|">> ELSE <<"|">>
      [] c = "}" -> IF variants THEN <<"$", ")">> ELSE <<"}">>
      [] OTHER   -> <<c>>

\* %% and %=
EscapedText(c) ==
    IF c = "%" THEN <<"%">> ELSE <<"$", "{", ":", "u", "i", "d", "}">>

RECURSIVE SimpleResult(_)
SimpleResult(S) ==
    IF S = <<>> THEN <<>> ELSE SimpleText(Head(S)) \o SimpleResult(Tail(S))

\* the digits are not consumed: the scan is back at the "%"
DigitRunEndUnread(off) == off - 1

\* the offset at which the loop "while (CurPtr != StrEnd && isDigit(*CurPtr))"
\* started at off stops
RECURSIVE DigitRunEnd(_)
DigitRunEnd(off) ==
    IF off # StrEnd /\ isDigit(CharAt(off)) THEN DigitRunEnd(off + 1) ELSE off

\* the value of N when that loop stops, started with N at off
RECURSIVE DigitRunValue(_, _)
DigitRunValue(off, N) ==
    IF off # StrEnd /\ isDigit(CharAt(off))
    THEN DigitRunValue(off + 1, MulAdd10(N, DigitValue(CharAt(off))))
    ELSE N

\* memchr(CurPtr, ']', StrEnd-CurPtr): the offset found, or StrEnd for null
RECURSIVE memchrBracket(_)
memchrBracket(off) ==
    IF off = StrEnd \/ CharAt(off) = "]" THEN off ELSE memchrBracket(off + 1)

SymbolicName(from, to) == SubSeq(Str, from + 1, to)

-----------------------------------------------------------------------------
(* One iteration of the scanning loop, read off the current state *)

Scanning == pc = "scan" /\ ~isSimple

AtPercent == Scanning /\ CurPtr # StrEnd /\ CharAt(CurPtr) = "%"

\* the character after '%' exists and starts an operand reference
AtOperand ==
    /\ AtPercent
    /\ CurPtr + 1 # StrEnd
    /\ CharAt(CurPtr + 1) \notin {"%", "="}

HasModifier == isLetter(CharAt(CurPtr + 1))

Modifier == IF HasModifier THEN CharAt(CurPtr + 1) ELSE NoModifier

\* CurPtr after EscapedChar has been read
AfterEscaped == IF HasModifier THEN CurPtr + 3 ELSE CurPtr + 2

\* the modifier is not the last character of the template
EscapedCharRead == AtOperand /\ (HasModifier => CurPtr + 2 # StrEnd)

EscapedChar == CharAt(AfterEscaped - 1)

\* a literal is pushed even when nothing has been accumulated
FlushedPiecesAlways == Append(Pieces, StringPiece(CurStringPiece))

\* lines 516-519
FlushedPieces ==
    IF CurStringPiece # <<>>
    THEN Append(Pieces, StringPiece(CurStringPiece))
    ELSE Pieces

\* the bound without the "+" outputs
NumOperandsNoPlus == getNumOutputs + getNumInputs

\* lines 540-541
NumOperands == getNumOutputs + getNumPlusOperands + getNumInputs

\* line 498: CurPtr-StrStart-1 once the "%" has been read
PercentAtEndDiagOffsNext == CurPtr + 1

PercentAtEndDiagOffs == (CurPtr + 1) - 1

\* the end of the template is reported instead of the modifier
ModifierAtEndDiagOffsEnd == CurPtr + 2

\* line 525: CurPtr-StrStart-1 once the modifier has been read
ModifierAtEndDiagOffs == (CurPtr + 2) - 1

\* line 543: CurPtr-StrStart-1, CurPtr being the end of the digit run
OperandNumberDiagOffs(runEnd) == runEnd - 1

\* the first character of the name is stored instead of the "["
SymbolicDiagOffsName == AfterEscaped

\* line 553: CurPtr-StrStart-1 once the "[" has been read
SymbolicDiagOffs == AfterEscaped - 1

\* the "[" is reported instead of the first character of the name
UnknownNameDiagOffsBracket == AfterEscaped - 1

\* line 567: CurPtr-StrStart once the "[" has been read
UnknownNameDiagOffs == AfterEscaped

\* the character after the offending one is reported
InvalidEscapeDiagOffsNext == AfterEscaped

\* line 576: CurPtr-StrStart-1 once EscapedChar has been read
InvalidEscapeDiagOffs == AfterEscaped - 1

Return(kind) == /\ Ret' = kind
                /\ pc' = "returned"

-----------------------------------------------------------------------------
(* Actions *)

\* isSimple(): lines 452-466
AnalyzeSimple ==
    /\ pc = "scan"
    /\ isSimple
    /\ Pieces' = Append(Pieces, StringPiece(SimpleResult(Str)))
    /\ CurPtr' = StrEnd
    /\ Return(NoError)
    /\ UNCHANGED Iterations
    /\ UNCHANGED <<astVars, stmtVars, CurStringPiece, DiagOffs, AsmString>>

\* lines 476-480
ScanDone ==
    /\ Scanning
    /\ CurPtr = StrEnd
    /\ Pieces' = FlushedPieces
    /\ Return(NoError)
    /\ Iterations' = Iterations + 1
    /\ UNCHANGED <<astVars, stmtVars, CurPtr, CurStringPiece, DiagOffs, AsmString>>

\* lines 482-493
ScanLiteral ==
    /\ Scanning
    /\ CurPtr # StrEnd
    /\ CharAt(CurPtr) # "%"
    /\ CurStringPiece' = CurStringPiece \o LiteralText(CharAt(CurPtr), HasVariants)
    /\ CurPtr' = CurPtr + 1
    /\ Iterations' = Iterations + 1
    /\ UNCHANGED <<astVars, stmtVars, Pieces, DiagOffs, Ret, AsmString, pc>>

\* lines 496-500
ScanPercentAtEnd ==
    /\ AtPercent
    /\ CurPtr + 1 = StrEnd
    /\ CurPtr' = CurPtr + 1
    /\ DiagOffs' = PercentAtEndDiagOffs
    /\ Return(err_asm_invalid_escape)
    /\ Iterations' = Iterations + 1
    /\ UNCHANGED <<astVars, stmtVars, CurStringPiece, Pieces, AsmString>>

\* lines 502-512
ScanEscapedLiteral ==
    /\ AtPercent
    /\ CurPtr + 1 # StrEnd
    /\ CharAt(CurPtr + 1) \in {"%", "="}
    /\ CurStringPiece' = CurStringPiece \o EscapedText(CharAt(CurPtr + 1))
    /\ CurPtr' = CurPtr + 2
    /\ Iterations' = Iterations + 1
    /\ UNCHANGED <<astVars, stmtVars, Pieces, DiagOffs, Ret, AsmString, pc>>

\* lines 516-527
ScanModifierAtEnd ==
    /\ AtOperand
    /\ HasModifier
    /\ CurPtr + 2 = StrEnd
    /\ Pieces' = FlushedPieces
    /\ CurStringPiece' = <<>>
    /\ CurPtr' = CurPtr + 2
    /\ DiagOffs' = ModifierAtEndDiagOffs
    /\ Return(err_asm_invalid_escape)
    /\ Iterations' = Iterations + 1
    /\ UNCHANGED <<astVars, stmtVars, AsmString>>

\* lines 516-549
ScanNumericOperand ==
    /\ EscapedCharRead
    /\ isDigit(EscapedChar)
    /\ LET runEnd == DigitRunEnd(AfterEscaped - 1)
           N      == DigitRunValue(AfterEscaped - 1, U32(0))
       IN  /\ CurPtr' = runEnd
           /\ CurStringPiece' = <<>>
           /\ IF U32AtLeast(N, NumOperands)
              THEN /\ DiagOffs' = OperandNumberDiagOffs(runEnd)
                   /\ Pieces' = FlushedPieces
                   /\ Return(err_asm_invalid_operand_number)
              ELSE /\ Pieces' = Append(FlushedPieces, OperandPiece(N.lo, Modifier))
                   /\ UNCHANGED <<DiagOffs, Ret, pc>>
    /\ Iterations' = Iterations + 1
    /\ UNCHANGED <<astVars, stmtVars, AsmString>>

\* lines 516-530, 552-574
ScanSymbolicOperand ==
    /\ EscapedCharRead
    /\ EscapedChar = "["
    /\ CurStringPiece' = <<>>
    /\ LET NameEnd == memchrBracket(AfterEscaped)
           N       == getNamedOperand(SymbolicName(AfterEscaped, NameEnd))
       IN  CASE NameEnd = StrEnd ->
                  /\ DiagOffs' = SymbolicDiagOffs
                  /\ Pieces' = FlushedPieces
                  /\ CurPtr' = AfterEscaped
                  /\ Return(err_asm_unterminated_symbolic_operand_name)
             [] NameEnd # StrEnd /\ NameEnd = AfterEscaped ->
                  /\ DiagOffs' = SymbolicDiagOffs
                  /\ Pieces' = FlushedPieces
                  /\ CurPtr' = AfterEscaped
                  /\ Return(err_asm_empty_symbolic_operand_name)
             [] NameEnd # StrEnd /\ NameEnd # AfterEscaped /\ N = NotFound ->
                  /\ DiagOffs' = UnknownNameDiagOffs
                  /\ Pieces' = FlushedPieces
                  /\ CurPtr' = AfterEscaped
                  /\ Return(err_asm_unknown_symbolic_operand_name)
             [] OTHER ->
                  /\ DiagOffs' = SymbolicDiagOffs
                  /\ Pieces' = Append(FlushedPieces, OperandPiece(N, Modifier))
                  /\ CurPtr' = NameEnd + 1
                  /\ UNCHANGED <<Ret, pc>>
    /\ Iterations' = Iterations + 1
    /\ UNCHANGED <<astVars, stmtVars, AsmString>>

\* lines 516-530, 576-577
ScanInvalidEscape ==
    /\ EscapedCharRead
    /\ ~isDigit(EscapedChar)
    /\ EscapedChar # "["
    /\ Pieces' = FlushedPieces
    /\ CurStringPiece' = <<>>
    /\ CurPtr' = AfterEscaped
    /\ DiagOffs' = InvalidEscapeDiagOffs
    /\ Return(err_asm_invalid_escape)
    /\ Iterations' = Iterations + 1
    /\ UNCHANGED <<astVars, stmtVars, AsmString>>

\* llvm::utostr
RECURSIVE utostr(_)
utostr(n) ==
    IF n < 10
    THEN <<DigitChars[n + 1]>>
    ELSE utostr(n \div 10) \o <<DigitChars[(n % 10) + 1]>>

\* the modifier of an operand piece is dropped
PieceTextNoModifier(P) ==
    IF P.isString THEN P.Str ELSE <<"$">> \o utostr(P.OperandNo)

\* lines 591-597: what one piece adds to AsmString
PieceText(P) ==
    IF P.isString THEN P.Str
    ELSE IF P.Modifier = NoModifier THEN <<"$">> \o utostr(P.OperandNo)
    ELSE <<"$", "{">> \o utostr(P.OperandNo) \o <<":", P.Modifier, "}">>

\* lines 589-598
RECURSIVE Serialize(_)
Serialize(Ps) ==
    IF Ps = <<>> THEN <<>> ELSE PieceText(Head(Ps)) \o Serialize(Tail(Ps))

\* the pieces are serialised only when the analysis returned 0
generateAsmStringChecked ==
    /\ pc = "returned"
    /\ AsmString' = IF Ret = NoError THEN Serialize(Pieces) ELSE <<>>
    /\ pc' = "generated"
    /\ UNCHANGED <<astVars, stmtVars, CurPtr, CurStringPiece, Pieces, DiagOffs,
                   Ret, Iterations>>

\* lines 582-600, once its call of AnalyzeAsmString has returned; the value
\* returned by that call is not looked at
generateAsmString ==
    /\ pc = "returned"
    /\ AsmString' = Serialize(Pieces)
    /\ pc' = "generated"
    /\ UNCHANGED <<astVars, stmtVars, CurPtr, CurStringPiece, Pieces, DiagOffs,
                   Ret, Iterations>>

-----------------------------------------------------------------------------
(* The asm statements and templates that are analysed *)

Alphabet == {"%", "$", "{", "=", "0", "1", "a", "[", "]"}

Strings(n) == UNION {[1..k -> Alphabet] : k \in 0..n}

Heads ==
    { <<>>,
      <<"%", "[", "a", "]">>,
      <<"%", "a", "[", "a", "]">>,
      <<"%", "[", "a", "a", "]">>,
      <<"%", "0", "a">>,
      <<"a", "%">> }

\* the variant characters, which the freely enumerated tails hold only "{" of
VariantStrings == UNION {[1..k -> {"{", "|", "}"}] : k \in 0..MaxLen}

\* digit runs at and around 2^32, the first value an unsigned cannot hold
LongDigitRuns ==
    { <<"%", "4", "2", "9", "4", "9", "6", "7", "2", "9", "5">>,
      <<"%", "4", "2", "9", "4", "9", "6", "7", "2", "9", "6">>,
      <<"%", "a", "4", "2", "9", "4", "9", "6", "7", "2", "9", "7">>,
      <<"%", "0", "0", "0", "0", "0", "0", "0", "0", "0", "0", "1">> }

\* "%0 = %1", "%4", "%[foo]", "%9", "mov $eax, $ebx", "%a11%10",
\* "%[a]%a[a]"
Examples ==
    { <<"%", "0", " ", "=", " ", "%", "1">>,
      <<"%", "4">>,
      <<"%", "[", "f", "o", "o", "]">>,
      <<"%", "9">>,
      <<"m", "o", "v", " ", "$", "e", "a", "x", ",", " ", "$", "e", "b", "x">>,
      <<"%", "a", "1", "1", "%", "1", "0">>,
      <<"%", "[", "a", "]", "%", "a", "[", "a", "]">> }

Templates ==
    {h \o t : h \in Heads, t \in Strings(MaxLen)}
        \cup VariantStrings \cup LongDigitRuns \cup Examples

Unnamed == <<>>

GCCAsmStmts ==
    { [isSimple |-> TRUE, HasVariants |-> TRUE,
       OutputNames |-> <<>>, OutputConstraints |-> <<>>, InputNames |-> <<>>],
      [isSimple |-> FALSE, HasVariants |-> TRUE,
       OutputNames |-> << <<"a">>, <<"a">> >>,
       OutputConstraints |-> << <<"=", "r">>, <<"+", "r">> >>,
       InputNames |-> << <<"a">>, <<"a", "a">> >>],
      [isSimple |-> FALSE, HasVariants |-> FALSE,
       OutputNames |-> << <<"a", "a">> >>,
       OutputConstraints |-> << <<"=", "r">> >>,
       InputNames |-> << <<"a">>, <<"a">> >>],
      [isSimple |-> FALSE, HasVariants |-> TRUE,
       OutputNames |-> << <<"f", "o", "o">> >>,
       OutputConstraints |-> << <<"=", "m">> >>,
       InputNames |-> << Unnamed >>],
      [isSimple |-> FALSE, HasVariants |-> FALSE,
       OutputNames |-> <<>>, OutputConstraints |-> <<>>, InputNames |-> <<>>],
      [isSimple |-> FALSE, HasVariants |-> FALSE,
       OutputNames |-> <<>>, OutputConstraints |-> <<>>,
       InputNames |-> [i \in 1..12 |-> Unnamed]] }

\* the value the caller's DiagOffs holds at the call, which is never read
CallerDiagOffs == {99}

\* no asm statement is being analysed
AsmIdle ==
    /\ Str = <<>>
    /\ isSimple = TRUE
    /\ HasVariants = FALSE
    /\ OutputNames = <<>>
    /\ OutputConstraints = <<>>
    /\ InputNames = <<>>
    /\ CurPtr = 0
    /\ CurStringPiece = <<>>
    /\ Pieces = <<>>
    /\ DiagOffs = 0
    /\ Ret = NotReturned
    /\ AsmString = <<>>
    /\ pc = "idle"
    /\ Iterations = 0

\* the nodes a specification is not about are not in use
OthersIdle(node) ==
    /\ IF node = "GCCAsmStmt" THEN TRUE ELSE AsmIdle
    /\ IF node = "CompoundStmt" THEN TRUE ELSE CompoundIdle
    /\ IF node = "IfStmt" THEN TRUE ELSE CondIdle
    /\ IF node = "ObjCAtTryStmt" THEN TRUE ELSE ObjCIdle
    /\ IF node = "Stmt" THEN TRUE ELSE DispatchIdle
    /\ IF node = "StmtClassInfo" THEN TRUE ELSE TableIdle
    /\ IF node = "OMPClause" THEN TRUE ELSE ClauseIdle
    /\ IF node = "OMPExecutableDirective" THEN TRUE ELSE DirectiveIdle
    /\ IF node = "CXXTryStmt" THEN TRUE ELSE CXXTryIdle
    /\ IF node = "CapturedStmt" THEN TRUE ELSE CapturedIdle

AsmInit ==
    /\ Str \in Templates
    /\ \E S \in GCCAsmStmts :
          /\ isSimple = S.isSimple
          /\ HasVariants = S.HasVariants
          /\ OutputNames = S.OutputNames
          /\ OutputConstraints = S.OutputConstraints
          /\ InputNames = S.InputNames
    /\ CurPtr = 0
    /\ CurStringPiece = <<>>
    /\ Pieces = <<>>
    /\ DiagOffs \in CallerDiagOffs
    /\ Ret = NotReturned
    /\ AsmString = <<>>
    /\ pc = "scan"
    /\ Iterations = 0
    /\ OthersIdle("GCCAsmStmt")

AsmNext ==
    \/ AnalyzeSimple
    \/ ScanDone
    \/ ScanLiteral
    \/ ScanPercentAtEnd
    \/ ScanEscapedLiteral
    \/ ScanModifierAtEnd
    \/ ScanNumericOperand
    \/ ScanSymbolicOperand
    \/ ScanInvalidEscape
    \/ generateAsmString

AsmSpec == AsmInit /\ [][AsmNext]_vars

-----------------------------------------------------------------------------
(* The specifications of the other nodes *)

CompoundInit == CompoundIdle /\ OthersIdle("CompoundStmt")

CompoundNext == CompoundStmt \/ setStmts

CompoundSpec == CompoundInit /\ [][CompoundNext]_vars

CondInit == CondConstructed /\ OthersIdle("IfStmt")

CondNext ==
    \/ IfStmt_setConditionVariable
    \/ ForStmt_setConditionVariable
    \/ SwitchStmt_setConditionVariable
    \/ WhileStmt_setConditionVariable

CondSpec == CondInit /\ [][CondNext]_vars

ObjCInit == ObjCConstructed /\ OthersIdle("ObjCAtTryStmt")

ObjCNext == getLocEnd

ObjCSpec == ObjCInit /\ [][ObjCNext]_vars

DispatchInit == DispatchStart /\ OthersIdle("Stmt")

DispatchNext ==
    \/ CallChildren
    \/ CallGetSourceRange
    \/ CallGetLocStart
    \/ CallGetLocEnd

DispatchSpec == DispatchInit /\ [][DispatchNext]_vars

TableInit == TableIdle /\ OthersIdle("StmtClassInfo")

TableNext ==
    \E t \in Threads :
        \/ TableCall(t)
        \/ TableTest(t)
        \/ TableSetInitialized(t)
        \/ TableFill(t)
        \/ TableReturn(t)

TableSpec == TableInit /\ [][TableNext]_vars

StatsNext ==
    \/ Stmt_getStmtClassName
    \/ Stmt_addStmtClass
    \/ Stmt_PrintStats
    \/ Stmt_EnableStatistics

StatsSpec == TableInit /\ [][StatsNext]_vars

ClauseInit == ClauseCall /\ OthersIdle("OMPClause")

ClauseNext == ClauseCreate

ClauseSpec == ClauseInit /\ [][ClauseNext]_vars

ClauseSizeInit == ClauseSizeCall /\ OthersIdle("OMPClause")

ClauseSizeNext == ClauseCreate \/ ClauseCreateEmpty

ClauseSizeSpec == ClauseSizeInit /\ [][ClauseSizeNext]_vars

DirectiveInit == DirectiveStart /\ OthersIdle("OMPExecutableDirective")

DirectiveNext == DirectiveCreate \/ DirectiveCreateEmpty

DirectiveSpec == DirectiveInit /\ [][DirectiveNext]_vars

CXXTryInit == CXXTryStart /\ OthersIdle("CXXTryStmt")

CXXTryNext == CXXTryStmt_Create \/ CXXTryStmt_CreateEmpty

CXXTrySpec == CXXTryInit /\ [][CXXTryNext]_vars

CapturedInit == CapturedStart /\ OthersIdle("CapturedStmt")

CapturedNext == CapturedStmt_Create \/ CapturedStmt_CreateDeserialized

CapturedSpec == CapturedInit /\ [][CapturedNext]_vars

-----------------------------------------------------------------------------
(* The template as a sequence of tokens, read off Str alone.  A token is   *)
(* literal text, an operand reference or a malformed escape; "next" is the *)
(* offset of the token that follows.                                       *)

RefTotalOperands ==
    Len(OutputNames) + Len(InputNames)
        + Cardinality({i \in 1..Len(OutputConstraints) :
                          OutputConstraints[i][1] = "+"})

\* the decimal value of the digit run at off, cut off at RefTotalOperands
RECURSIVE RefRunValue(_, _)
RefRunValue(off, acc) ==
    IF off < Len(Str) /\ isDigit(Str[off + 1])
    THEN LET v == acc * 10 + DigitValue(Str[off + 1])
         IN  RefRunValue(off + 1,
                         IF v > RefTotalOperands THEN RefTotalOperands ELSE v)
    ELSE acc

\* the offsets of the digit run that starts at off
RefRun(off) ==
    {k \in off..(Len(Str) - 1) : \A j \in off..k : isDigit(Str[j + 1])}

\* the offset of the first "]" at or after off, Len(Str) if there is none
RefClose(off) ==
    LET found == {k \in off..(Len(Str) - 1) : Str[k + 1] = "]"}
    IN  IF found = {} THEN Len(Str)
        ELSE CHOOSE k \in found : \A j \in found : k <= j

\* the operand a name stands for, -1 if none
RefNameIndex(name) ==
    LET outs == {i \in 1..Len(OutputNames) : OutputNames[i] = name}
        ins  == {j \in 1..Len(InputNames) : InputNames[j] = name}
    IN  IF outs # {}
        THEN (CHOOSE i \in outs : \A k \in outs : i <= k) - 1
        ELSE IF ins # {}
        THEN Len(OutputNames) + (CHOOSE j \in ins : \A k \in ins : j <= k) - 1
        ELSE -1

RefLit(text, next) ==
    [kind |-> "lit", text |-> text, n |-> 0, mod |-> NoModifier,
     diag |-> NoError, offs |-> 0, next |-> next]

RefOp(n, mod, next) ==
    [kind |-> "op", text |-> <<>>, n |-> n, mod |-> mod,
     diag |-> NoError, offs |-> 0, next |-> next]

RefErr(diag, offs) ==
    [kind |-> "err", text |-> <<>>, n |-> 0, mod |-> NoModifier,
     diag |-> diag, offs |-> offs, next |-> Len(Str)]

\* the escape whose "%" is at offset p
RefEscape(p) ==
    IF p + 1 = Len(Str) THEN RefErr(err_asm_invalid_escape, p)
    ELSE IF Str[p + 2] = "%" THEN RefLit(<<"%">>, p + 2)
    ELSE IF Str[p + 2] = "=" THEN RefLit(EscapedText("="), p + 2)
    ELSE
      LET hasMod == isLetter(Str[p + 2])
          mod    == IF hasMod THEN Str[p + 2] ELSE NoModifier
          q      == IF hasMod THEN p + 2 ELSE p + 1
      IN  IF q = Len(Str) THEN RefErr(err_asm_invalid_escape, p + 1)
          ELSE IF isDigit(Str[q + 1])
          THEN IF RefRunValue(q, 0) >= RefTotalOperands
               THEN RefErr(err_asm_invalid_operand_number, q)
               ELSE RefOp(RefRunValue(q, 0), mod, q + Cardinality(RefRun(q)))
          ELSE IF Str[q + 1] = "["
          THEN LET close == RefClose(q + 1)
                   name  == SubSeq(Str, q + 2, close)
               IN  IF close = Len(Str)
                   THEN RefErr(err_asm_unterminated_symbolic_operand_name, q)
                   ELSE IF close = q + 1
                   THEN RefErr(err_asm_empty_symbolic_operand_name, q)
                   ELSE IF RefNameIndex(name) = -1
                   THEN RefErr(err_asm_unknown_symbolic_operand_name, q + 1)
                   ELSE RefOp(RefNameIndex(name), mod, close + 1)
          ELSE RefErr(err_asm_invalid_escape, q)

\* the tokens from offset off on, up to and including the first malformed one
RECURSIVE RefTokens(_)
RefTokens(off) ==
    IF off = Len(Str) THEN <<>>
    ELSE IF Str[off + 1] # "%"
    THEN <<RefLit(LiteralText(Str[off + 1], HasVariants), off + 1)>>
             \o RefTokens(off + 1)
    ELSE LET t == RefEscape(off)
         IN  IF t.kind = "err" THEN <<t>> ELSE <<t>> \o RefTokens(t.next)

\* a malformed escape ends the tokens, so it is the last of them
RefMalformed ==
    LET toks == RefTokens(0)
    IN  toks # <<>> /\ toks[Len(toks)].kind = "err"

\* one piece per operand token, one literal piece per maximal non-empty run
\* of literal text between them
RECURSIVE RefGroup(_, _)
RefGroup(toks, text) ==
    LET lit == IF text = <<>> THEN <<>> ELSE <<StringPiece(text)>>
    IN  IF toks = <<>> THEN lit
        ELSE IF Head(toks).kind = "lit"
        THEN RefGroup(Tail(toks), text \o Head(toks).text)
        ELSE IF Head(toks).kind = "op"
        THEN lit \o <<OperandPiece(Head(toks).n, Head(toks).mod)>>
                 \o RefGroup(Tail(toks), <<>>)
        ELSE lit

Returned == pc # "scan"

-----------------------------------------------------------------------------
\* C1: for a non-simple template with no malformed escape AnalyzeAsmString
\* returns 0 and the pieces are, in template order, one operand piece per
\* operand reference and one literal piece per non-empty stretch of literal
\* text between them; no literal piece is empty and no two are adjacent.
C1_PiecesFollowTemplate ==
    /\ (Returned /\ ~isSimple /\ ~RefMalformed) =>
           /\ Ret = NoError
           /\ Pieces = RefGroup(RefTokens(0), <<>>)
    /\ ~isSimple =>
           \A i \in 1..Len(Pieces) :
               Pieces[i].isString =>
                   /\ Pieces[i].Str # <<>>
                   /\ i < Len(Pieces) => ~Pieces[i + 1].isString

\* "%0 = %1" with two operands has given [operand 0, " = ", operand 1]
C1_Witness ==
    /\ Returned
    /\ ~isSimple
    /\ Str = <<"%", "0", " ", "=", " ", "%", "1">>
    /\ RefTotalOperands = 2
    /\ Ret = NoError
    /\ Pieces = << OperandPiece(0, NoModifier),
                   StringPiece(<<" ", "=", " ">>),
                   OperandPiece(1, NoModifier) >>

-----------------------------------------------------------------------------
(* The escape the scan is about to read *)

\* the scan is at a "%" that starts an escape
RefAtEscape ==
    pc = "scan" /\ ~isSimple /\ CurPtr < Len(Str) /\ Str[CurPtr + 1] = "%"

\* the offset of the character after the "%" at p and its optional modifier
RefAfterModifier(p) == IF isLetter(Str[p + 2]) THEN p + 2 ELSE p + 1

RefModifier(p) == IF isLetter(Str[p + 2]) THEN Str[p + 2] ELSE NoModifier

\* the escape at p is "%", an optional letter, then a digit
RefIsNumeric(p) ==
    /\ p + 1 < Len(Str)
    /\ RefAfterModifier(p) < Len(Str)
    /\ isDigit(Str[RefAfterModifier(p) + 1])

\* the escape at p is "%", an optional letter, then "["
RefIsSymbolic(p) ==
    /\ p + 1 < Len(Str)
    /\ RefAfterModifier(p) < Len(Str)
    /\ Str[RefAfterModifier(p) + 1] = "["

\* the step has returned the error kind with the offset offs
RefFails(kind, offs) ==
    /\ pc' = "returned"
    /\ Ret' = kind
    /\ DiagOffs' = offs

\* the step has pushed no operand piece
RefNoOperandPushed ==
    /\ Len(Pieces') >= Len(Pieces)
    /\ SubSeq(Pieces', 1, Len(Pieces)) = Pieces
    /\ \A i \in (Len(Pieces) + 1)..Len(Pieces') : Pieces'[i].isString

\* the step has pushed the operand piece (n, mod) last and goes on scanning
RefOperandPushed(n, mod) ==
    /\ pc' = "scan"
    /\ Len(Pieces') > Len(Pieces)
    /\ Pieces'[Len(Pieces')] = OperandPiece(n, mod)
    /\ \A i \in (Len(Pieces) + 1)..(Len(Pieces') - 1) : Pieces'[i].isString

-----------------------------------------------------------------------------
RefDollars(S, k) == Cardinality({i \in 1..k : S[i] = "$"})

RefDollarsDoubled(S, out) ==
    /\ Len(out) = Len(S) + RefDollars(S, Len(S))
    /\ \A i \in 1..Len(S) :
           LET j == i + RefDollars(S, i - 1)
           IN  /\ out[j] = S[i]
               /\ S[i] = "$" => out[j + 1] = "$"

\* C2: a simple statement never fails: AnalyzeAsmString returns 0 with exactly
\* one literal piece, the template with every "$" doubled and every other
\* character, "%", "{", "|", "}" included, copied unchanged.
C2_SimpleOnlyDoublesDollar ==
    (Returned /\ isSimple) =>
        /\ Ret = NoError
        /\ Len(Pieces) = 1
        /\ Pieces[1].isString
        /\ RefDollarsDoubled(Str, Pieces[1].Str)

\* "mov $eax, $ebx" has given the one piece "mov $$eax, $$ebx"
C2_Witness ==
    /\ Returned
    /\ isSimple
    /\ Str = <<"m", "o", "v", " ", "$", "e", "a", "x", ",", " ",
               "$", "e", "b", "x">>
    /\ Pieces = << StringPiece(<<"m", "o", "v", " ", "$", "$", "e", "a", "x",
                                 ",", " ", "$", "$", "e", "b", "x">>) >>

-----------------------------------------------------------------------------
\* C3: a "%", an optional modifier letter and a digit run is an operand
\* reference whose index is the decimal value of the whole run: a value of at
\* least outputs + "+" outputs + inputs is the invalid-operand-number error,
\* a smaller one is pushed as an operand piece with that index, whatever the
\* length of the run.
C3_RunIsDecimalIndex ==
    [][ (RefAtEscape /\ RefIsNumeric(CurPtr)) =>
            LET v == RefRunValue(RefAfterModifier(CurPtr), 0)
            IN  IF v >= RefTotalOperands
                THEN pc' = "returned" /\ Ret' = err_asm_invalid_operand_number
                ELSE RefOperandPushed(v, RefModifier(CurPtr)) ]_vars

-----------------------------------------------------------------------------
\* C4: the offset reported with the invalid-operand-number error is that of
\* the first digit of the digit run, whatever the length of the run.
C4_OffsetIsFirstDigit ==
    [][ (RefAtEscape /\ RefIsNumeric(CurPtr)
           /\ Ret' = err_asm_invalid_operand_number) =>
            DiagOffs' = RefAfterModifier(CurPtr) ]_vars

-----------------------------------------------------------------------------
\* C5: %[name], name being the text up to the first "]", is pushed as the
\* operand piece of the first output named name, else of NumOutputs + the
\* first input named name, and the scan resumes right after the "]".
C5_NameResolvesOutputsFirst ==
    [][ (RefAtEscape /\ RefIsSymbolic(CurPtr)) =>
            LET q     == RefAfterModifier(CurPtr)
                close == RefClose(q + 1)
                n     == RefNameIndex(SubSeq(Str, q + 2, close))
            IN  (close < Len(Str) /\ close > q + 1 /\ n # -1) =>
                    /\ RefOperandPushed(n, RefModifier(CurPtr))
                    /\ CurPtr' = close + 1 ]_vars

\* a name that an output and an input carry has been resolved to the output,
\* or a name of the second input to NumOutputs + 1, and text follows the "]"
C5_Witness ==
    /\ pc = "scan"
    /\ ~isSimple
    /\ CurPtr > 0
    /\ CurPtr < Len(Str)
    /\ Str[CurPtr] = "]"
    /\ CurStringPiece = <<>>
    /\ Len(Pieces) > 0
    /\ ~Pieces[Len(Pieces)].isString
    /\ Len(OutputNames) = 2
    /\ Pieces[Len(Pieces)].OperandNo = Len(OutputNames) + 1

-----------------------------------------------------------------------------
\* C6: "%[" with no "]" after it is the unterminated-name error at the "[";
\* "%[]" is the empty-name error at the "["; a name no output or input
\* carries is the unknown-name error at the first character of the name; none
\* of them pushes an operand piece.
C6_SymbolicErrors ==
    [][ (RefAtEscape /\ RefIsSymbolic(CurPtr)) =>
            LET q     == RefAfterModifier(CurPtr)
                close == RefClose(q + 1)
                n     == RefNameIndex(SubSeq(Str, q + 2, close))
            IN  /\ close = Len(Str) =>
                      /\ RefFails(err_asm_unterminated_symbolic_operand_name, q)
                      /\ RefNoOperandPushed
                /\ (close < Len(Str) /\ close = q + 1) =>
                      /\ RefFails(err_asm_empty_symbolic_operand_name, q)
                      /\ RefNoOperandPushed
                /\ (close < Len(Str) /\ close > q + 1 /\ n = -1) =>
                      /\ RefFails(err_asm_unknown_symbolic_operand_name, q + 1)
                      /\ RefNoOperandPushed ]_vars

\* an unknown name after literal text has been reported at its first
\* character, and the literal is the only piece
C6_Witness ==
    /\ Returned
    /\ Ret = err_asm_unknown_symbolic_operand_name
    /\ DiagOffs > 1
    /\ Str[DiagOffs] = "["
    /\ Len(Pieces) = 1
    /\ Pieces[1].isString

-----------------------------------------------------------------------------
\* C7: a "%" the scan reaches as the last character of the template is the
\* invalid-escape error at the offset of that "%".
C7_PercentAtEnd ==
    [][ (RefAtEscape /\ CurPtr + 1 = Len(Str)) =>
            RefFails(err_asm_invalid_escape, CurPtr) ]_vars

\* a "%" that ends a longer template has been reported at its own offset
C7_Witness ==
    /\ Returned
    /\ ~isSimple
    /\ Len(Str) > 1
    /\ Str[Len(Str)] = "%"
    /\ Str[Len(Str) - 1] # "%"
    /\ Ret = err_asm_invalid_escape
    /\ DiagOffs = Len(Str) - 1

-----------------------------------------------------------------------------
\* C8: after "%" only "%", "=", a digit, "[" or a letter followed by a digit
\* or "[" is accepted.  Any other character is the invalid-escape error at
\* that character, after a modifier letter too ("%" and "=" included), and a
\* modifier letter that ends the template is the error at the letter.
C8_InvalidEscapes ==
    [][ (RefAtEscape /\ CurPtr + 1 < Len(Str)) =>
            LET c1  == Str[CurPtr + 2]
                q   == RefAfterModifier(CurPtr)
                opens(c) == isDigit(c) \/ c = "["
            IN  IF isLetter(c1)
                THEN IF q = Len(Str)
                     THEN RefFails(err_asm_invalid_escape, CurPtr + 1)
                     ELSE IF opens(Str[q + 1])
                     THEN Ret' # err_asm_invalid_escape
                     ELSE RefFails(err_asm_invalid_escape, q)
                ELSE IF c1 \in {"%", "="} \/ opens(c1)
                     THEN Ret' # err_asm_invalid_escape
                     ELSE RefFails(err_asm_invalid_escape, CurPtr + 1) ]_vars

\* "%" or "=" after a modifier letter has been reported at its own offset
C8_Witness ==
    /\ Returned
    /\ ~isSimple
    /\ Ret = err_asm_invalid_escape
    /\ DiagOffs >= 2
    /\ Str[DiagOffs + 1] \in {"%", "="}
    /\ isLetter(Str[DiagOffs])
    /\ Str[DiagOffs - 1] = "%"

-----------------------------------------------------------------------------
RefFirstError == RefTokens(0)[Len(RefTokens(0))]

\* C9: AnalyzeAsmString returns a nonzero kind exactly when the non-simple
\* template holds a malformed escape, and then the kind and the offset are
\* those of the leftmost malformed escape.
C9_FirstErrorReported ==
    (Returned /\ ~isSimple) =>
        /\ (Ret # NoError) <=> RefMalformed
        /\ RefMalformed =>
              /\ Ret = RefFirstError.diag
              /\ DiagOffs = RefFirstError.offs

-----------------------------------------------------------------------------
RECURSIVE RefParse(_)
RefParse(digits) ==
    IF digits = <<>> THEN 0
    ELSE RefParse(SubSeq(digits, 1, Len(digits) - 1)) * 10
             + DigitValue(digits[Len(digits)])

\* digits is the decimal numeral of n
RefIsDecimal(digits, n) ==
    /\ digits # <<>>
    /\ \A i \in 1..Len(digits) : isDigit(digits[i])
    /\ Len(digits) > 1 => digits[1] # "0"
    /\ RefParse(digits) = n

\* text is what the operand piece P contributes
RefIsOperandText(text, P) ==
    IF P.Modifier = NoModifier
    THEN /\ Len(text) >= 2
         /\ text[1] = "$"
         /\ RefIsDecimal(SubSeq(text, 2, Len(text)), P.OperandNo)
    ELSE /\ Len(text) >= 6
         /\ SubSeq(text, 1, 2) = <<"$", "{">>
         /\ RefIsDecimal(SubSeq(text, 3, Len(text) - 3), P.OperandNo)
         /\ SubSeq(text, Len(text) - 2, Len(text)) = <<":", P.Modifier, "}">>

\* text is the concatenation of what the pieces Ps contribute
RECURSIVE RefIsSerialization(_, _)
RefIsSerialization(text, Ps) ==
    IF Ps = <<>> THEN text = <<>>
    ELSE \E k \in 0..Len(text) :
            /\ IF Head(Ps).isString
               THEN SubSeq(text, 1, k) = Head(Ps).Str
               ELSE RefIsOperandText(SubSeq(text, 1, k), Head(Ps))
            /\ RefIsSerialization(SubSeq(text, k + 1, Len(text)), Tail(Ps))

\* C10: generateAsmString returns the texts of the pieces of AnalyzeAsmString
\* in order: a literal piece its text, an operand piece "$" and its index in
\* decimal, or "${", the index, ":", the modifier and "}".
C10_SerializesPieces ==
    pc = "generated" => RefIsSerialization(AsmString, Pieces)

\* "%a11%10" with twelve operands has given "${11:a}$10"
C10_Witness ==
    /\ pc = "generated"
    /\ Str = <<"%", "a", "1", "1", "%", "1", "0">>
    /\ Ret = NoError
    /\ AsmString = <<"$", "{", "1", "1", ":", "a", "}", "$", "1", "0">>

-----------------------------------------------------------------------------
(* CompoundStmt *)

\* C11: the children of a CompoundStmt just constructed from a sequence of
\* statements are exactly that sequence, in order and of the same length;
\* constructed from no statement, its Body is null and it has no child.
C11_ChildrenAreConstructed ==
    compoundPc = "CompoundStmt" =>
        /\ CompoundStmt_children = Supplied
        /\ Supplied = <<>> => Body.null /\ CompoundStmt_children = <<>>

C11_Witness ==
    /\ compoundPc = "CompoundStmt"
    /\ Supplied = <<"s1", "s2", "s2">>
    /\ ~Body.null

\* the statement counts the bit-field can hold
RefFitsNumStmts(n) == n < 2 ^ NumStmtsBits

\* C12: after any sequence of constructions and setStmts calls the stored
\* count is the number of statements last supplied; a count that does not
\* fit the bit-field fails an assertion in either operation and is never
\* stored truncated.
C12_CountIsLastSupplied ==
    /\ compoundPc \in {"CompoundStmt", "setStmts"} =>
           NumStmts = Len(Supplied)
    /\ compoundPc # "none" /\ ~RefFitsNumStmts(Len(Supplied)) =>
           compoundPc = "assert"

-----------------------------------------------------------------------------
(* Condition variables *)

\* C13: on an IfStmt, ForStmt, SwitchStmt or WhileStmt, getConditionVariable
\* returns the variable of the most recent setConditionVariable call: V after
\* a call with a non-null V, which is kept wrapped in a DeclStmt that begins
\* and ends where V's source range does, and null after a call with null.
C13_GetReturnsLastSet ==
    \A node \in CondNodes :
        /\ getConditionVariable(node) = CondVar[node]
        /\ CondVar[node].null => SubExprs[node].null
        /\ ~CondVar[node].null =>
               /\ ~SubExprs[node].null
               /\ SubExprs[node].StartLoc = CondVar[node].Begin
               /\ SubExprs[node].EndLoc = CondVar[node].End

C13_Witness ==
    /\ condPc = "ForStmt"
    /\ CondVar["ForStmt"].name = "y"
    /\ getConditionVariable("ForStmt").name = "y"
    /\ CondVar["WhileStmt"].null
    /\ SubExprs["IfStmt"].EndLoc = 3

-----------------------------------------------------------------------------
(* ObjCAtTryStmt *)

\* C14: ObjCAtTryStmt::getLocEnd returns the end of the finally statement if
\* there is one, otherwise the end of the last catch statement if there is
\* at least one, otherwise the end of the try body (a body ending at 10 and
\* one catch ending at 20, without finally, give 20).
C14_LocEndFallsBack ==
    objcPc = "getLocEnd" =>
        TryLocEnd =
            IF ~atFinallyStmt.null THEN atFinallyStmt.LocEnd
            ELSE IF Len(CatchStmts) >= 1
                   THEN CatchStmts[Len(CatchStmts)].LocEnd
                   ELSE atTryStmt.LocEnd

C14_Witness ==
    /\ objcPc = "getLocEnd"
    /\ atTryStmt.LocEnd = 10
    /\ Len(CatchStmts) = 2
    /\ CatchStmts[1].LocEnd = 30
    /\ CatchStmts[2].LocEnd = 20
    /\ atFinallyStmt.null
    /\ TryLocEnd = 20

-----------------------------------------------------------------------------
(* Dispatch on the class of a node *)

\* the member functions a dispatcher may call on the node's own class
RefMembers(name) ==
    IF name = "getSourceRange"
      THEN {{"getSourceRange"}, {"getLocStart", "getLocEnd"}}
      ELSE {{name}}

\* C15: for the tag of every concrete class, children, getSourceRange,
\* getLocStart and getLocEnd each call the implementation of exactly that
\* class and return its result; for NoStmtClass and for any tag that is not
\* in the closed set each of them ends in llvm_unreachable and returns no
\* value.
C15_DispatchIsTotal ==
    dispatchPc # "none" =>
        IF sClass # NoStmtClass /\ sClass \in 1..Len(StmtNodes)
          THEN /\ Dispatched.returned
               /\ \A call \in Dispatched.calls : call[1] = StmtNodes[sClass]
               /\ {call[2] : call \in Dispatched.calls}
                      \in RefMembers(dispatchPc)
          ELSE /\ ~Dispatched.returned
               /\ Dispatched.calls = {}
               /\ Dispatched.fatal # ""

C15_Witness ==
    /\ dispatchPc = "getSourceRange"
    /\ sClass = 8
    /\ Dispatched.returned
    /\ Dispatched.calls = {<<"ObjCAtTryStmt", "getLocStart">>,
                           <<"ObjCAtTryStmt", "getLocEnd">>}

-----------------------------------------------------------------------------
(* The table of class names and sizes *)

\* C16: the one-time build of the table is safe under concurrent first use:
\* in every interleaving of two threads that call getStmtInfoTableEntry
\* before the table is built, no thread obtains the entry of a concrete
\* class whose name or size has not been written.
C16_EntryIsWritten ==
    \A t \in Threads :
        threadPc[t] = "returned" /\ threadE[t] \in 1..Len(StmtNodes) =>
            /\ threadEntry[t].Name = StmtNodes[threadE[t]]
            /\ threadEntry[t].Size # 0

-----------------------------------------------------------------------------
(* OpenMP clauses *)

\* an array handed to Create is not as long as the variable list
RefMismatch ==
    \E p \in DOMAIN ClauseArgs : Len(ClauseArgs[p]) # Len(ClauseArgs["VL"])

\* C17: a call of the Create of a clause with parallel arrays (private,
\* firstprivate, lastprivate, copyin, copyprivate, reduction) in which an
\* array is not as long as the variable list fails an assertion before any
\* element, of the variable list or of another array, has been copied
\* behind the clause; a call that passes leaves every parallel array with
\* as many elements as there are variables.
C17_MismatchCopiesNothing ==
    /\ clausePc \in {"created", "assert"} /\ RefMismatch =>
           clausePc = "assert" /\ DOMAIN Trailing = {}
    /\ clausePc = "created" =>
           /\ ~RefMismatch
           /\ DOMAIN Trailing =
                  0..(ClauseSlotsPerVar(ClauseKind) * NumVars - 1)

-----------------------------------------------------------------------------
(* OpenMP directives *)

\* the directive classes for which a number of slots is stated
RefSlotKinds ==
    {"OMPParallelDirective", "OMPSectionsDirective", "OMPSingleDirective",
     "OMPTaskDirective", "OMPSectionDirective", "OMPMasterDirective",
     "OMPCriticalDirective", "OMPTaskgroupDirective", "OMPOrderedDirective",
     "OMPForDirective", "OMPSimdDirective", "OMPForSimdDirective",
     "OMPAtomicDirective", "OMPFlushDirective"}

\* the stated number of associated-statement slots
RefSlots ==
    CASE DirKind \in {"OMPForDirective", "OMPSimdDirective",
                      "OMPForSimdDirective"} -> 5 + CollapsedNum
      [] DirKind = "OMPAtomicDirective" -> 4
      [] DirKind = "OMPFlushDirective" -> 0
      [] OTHER -> 1

\* the header size rounded up to the pointer size
RefRoundedHeader ==
    CHOOSE m \in DirSizeof..(DirSizeof + StmtPtrSize - 1) :
        m % StmtPtrSize = 0

\* the stated size of a directive with its clauses and slots
RefDirectiveSize ==
    RefRoundedHeader + NumClauses * StmtPtrSize + RefSlots * StmtPtrSize

-----------------------------------------------------------------------------
(* CXXTryStmt *)

\* C19: each overload of CXXTryStmt::Create asks for exactly the size of
\* the node plus (number of handlers + 1) times the size of a node pointer;
\* the constructor stores the try block in slot 0 and the handlers, in
\* order, in slots 1..number of handlers, and each of these pointers lies
\* inside the allocation.
C19_TryAllocationIsExact ==
    /\ cxxTryPc \in {"created", "empty"} =>
           CXXTrySize = CXXTrySizeof + (Len(handlers) + 1) * TryPtrSize
    /\ cxxTryPc = "created" =>
           /\ DOMAIN CXXTryStmts = 0..Len(handlers)
           /\ CXXTryStmts[0] = tryBlock
           /\ \A i \in 1..Len(handlers) : CXXTryStmts[i] = handlers[i]
           /\ \A slot \in DOMAIN CXXTryStmts :
                  CXXTrySizeof + (slot + 1) * TryPtrSize <= CXXTrySize

-----------------------------------------------------------------------------
(* Characters and escapes that only add text to the current literal *)

\* the second character of the escape of a variant character
RefVariantEscape(c) ==
    CASE c = "{" -> "(" [] c = "|" -> "|" [] c = "}" -> ")"

\* offset p holds "$", "{", "|", "}", "%%" or "%="
RefTextOnlyAt(p) ==
    /\ p < Len(Str)
    /\ \/ Str[p + 1] \in {"$", "{", "|", "}"}
       \/ /\ Str[p + 1] = "%"
          /\ p + 2 <= Len(Str)
          /\ Str[p + 2] \in {"%", "="}

\* the characters read at offset p
RefTextOnlyWidth(p) == IF Str[p + 1] = "%" THEN 2 ELSE 1

\* the text stated for what offset p holds
RefTextOnly(p) ==
    CASE Str[p + 1] = "$" -> <<"$", "$">>
      [] Str[p + 1] \in {"{", "|", "}"} ->
            IF HasVariants THEN <<"$", RefVariantEscape(Str[p + 1])>>
            ELSE <<Str[p + 1]>>
      [] Str[p + 1] = "%" ->
            IF Str[p + 2] = "%" THEN <<"%">>
            ELSE <<"$", "{", ":", "u", "i", "d", "}">>

\* the template from offset p on: whether it holds nothing else, and the
\* text stated for it
RECURSIVE RefTextOnlyFrom(_)
RefTextOnlyFrom(p) ==
    IF p >= Len(Str) THEN [only |-> TRUE, text |-> <<>>]
    ELSE IF ~RefTextOnlyAt(p) THEN [only |-> FALSE, text |-> <<>>]
    ELSE LET rest == RefTextOnlyFrom(p + RefTextOnlyWidth(p))
         IN  [only |-> rest.only, text |-> RefTextOnly(p) \o rest.text]

\* C20: in a non-simple template, when the scan reads "$" it appends "$$"
\* to the current literal; "{", "|", "}" append "$(", "$|", "$)" when the
\* target has asm variants and the character itself otherwise; "%%" appends
\* "%" and "%=" appends "${:uid}"; none of them pushes a piece or returns.
\* A template of nothing but these yields 0 and exactly one literal piece
\* holding that text, or no piece when the template is empty.
C20_TextOnlyCharacters ==
    /\ [][(pc = "scan" /\ ~isSimple /\ RefTextOnlyAt(CurPtr)) =>
              /\ CurStringPiece' = CurStringPiece \o RefTextOnly(CurPtr)
              /\ CurPtr' = CurPtr + RefTextOnlyWidth(CurPtr)
              /\ Pieces' = Pieces
              /\ pc' = "scan"]_vars
    /\ [](Returned /\ ~isSimple /\ RefTextOnlyFrom(0).only =>
              /\ Ret = NoError
              /\ Pieces = IF Str = <<>> THEN <<>>
                          ELSE <<StringPiece(RefTextOnlyFrom(0).text)>>)

\* "{%=" on a target with asm variants has given the one piece "$(${:uid}"
C20_Witness ==
    /\ Returned
    /\ ~isSimple
    /\ HasVariants
    /\ Str = <<"{", "%", "=">>
    /\ Ret = NoError
    /\ Pieces = <<StringPiece(<<"$", "(", "$", "{", ":", "u", "i", "d", "}">>)>>

-----------------------------------------------------------------------------
(* The bound on a numeric operand index *)

\* the index the scan accumulates from the digit run of the escape at p
RefScannedIndex(p) == DigitRunValue(RefAfterModifier(p), U32(0))

\* the step has returned the invalid-operand-number error
RefIndexRejected ==
    pc' = "returned" /\ Ret' = err_asm_invalid_operand_number

\* C21 as stated: the bound the scan applies to a numeric operand index is
\* outputs + inputs, the "+"-constrained outputs adding nothing: an index
\* is rejected exactly when it is at least outputs + inputs.
C21_BoundIsOutputsPlusInputs ==
    [][ (RefAtEscape /\ RefIsNumeric(CurPtr)) =>
            (RefIndexRejected <=>
                 U32AtLeast(RefScannedIndex(CurPtr),
                            Len(OutputNames) + Len(InputNames))) ]_vars

\* C21 amended: the bound the scan applies to a numeric operand index is
\* outputs + "+"-constrained outputs + inputs: an index is rejected exactly
\* when it is at least that sum, so each "+"-constrained output admits one
\* more index.
C21_BoundCountsPlusOutputs ==
    [][ (RefAtEscape /\ RefIsNumeric(CurPtr)) =>
            (RefIndexRejected <=>
                 U32AtLeast(RefScannedIndex(CurPtr), RefTotalOperands)) ]_vars

\* "%4" with two outputs, one of them "+"-constrained, and two inputs has
\* given operand 4
C21_Witness ==
    /\ Returned
    /\ ~isSimple
    /\ Str = <<"%", "4">>
    /\ Len(OutputNames) = 2
    /\ Len(InputNames) = 2
    /\ RefTotalOperands = 5
    /\ Ret = NoError
    /\ Pieces = <<OperandPiece(4, NoModifier)>>

-----------------------------------------------------------------------------
(* The order of the setter calls of a clause *)

\* the place of a setter among the calls made so far, 0 if it was not called
RefCalledAt(setter) ==
    IF \E i \in 1..Len(SettersCalled) : SettersCalled[i] = setter
    THEN CHOOSE i \in 1..Len(SettersCalled) : SettersCalled[i] = setter
    ELSE 0

\* the setter of the array at whose end the setter writes, "" for setVars
RefWritesAfter(setter) ==
    (CHOOSE c \in {ClauseSetters(ClauseKind)[i] :
                      i \in 1..Len(ClauseSetters(ClauseKind))} :
         c.setter = setter).after

\* C22: Create of a clause calls the setters of its arrays in the order of
\* the arrays in storage: a setter is called only after the setter of the
\* array at whose end it writes.  For OMPLastPrivateClause (variables,
\* pseudo-variables 1, pseudo-variables 2, default inits, assignments) the
\* default inits are set before the assignments.
C22_SettersFollowLayout ==
    clausePc \in {"created", "assert"} =>
        /\ \A i \in 1..Len(SettersCalled) :
               LET before == RefWritesAfter(SettersCalled[i])
               IN  before # "" =>
                       /\ RefCalledAt(before) # 0
                       /\ RefCalledAt(before) < i
        /\ (ClauseKind = "OMPLastPrivateClause" /\ clausePc = "created") =>
               RefCalledAt("setDefaultInits") < RefCalledAt("setAssignments")

-----------------------------------------------------------------------------
(* The size of a clause *)

\* the stated number of pointer slots behind a clause of N variables
RefClauseSlots(N) ==
    CASE ClauseKind \in {"OMPLinearClause", "OMPAlignedClause"} -> N + 1
      [] ClauseKind \in {"OMPSharedClause", "OMPFlushClause",
                         "OMPUniformClause"} -> N
      [] ClauseKind = "OMPPrivateClause" -> 2 * N
      [] ClauseKind = "OMPFirstPrivateClause" -> 3 * N
      [] ClauseKind \in {"OMPCopyinClause", "OMPCopyPrivateClause"} -> 4 * N
      [] ClauseKind \in {"OMPLastPrivateClause", "OMPReductionClause"} ->
            5 * N

\* the clause header rounded up to the pointer size
RefClauseHeader ==
    CHOOSE m \in ClauseSizeof..(ClauseSizeof + ExprPtrSize - 1) :
        m % ExprPtrSize = 0

\* the stated size of a clause of N variables
RefClauseSize(N) == RefClauseHeader + RefClauseSlots(N) * ExprPtrSize

\* the expressions Create was handed
RefHanded ==
    {ClauseArgs[p][i] : p \in DOMAIN ClauseArgs, i \in 1..Len(ClauseArgs["VL"])}

\* C23: for each clause class with a variable list and each number N of
\* variables, Create and CreateEmpty ask for the same size: the header
\* rounded up to the pointer size plus k * N pointer slots (private 2,
\* firstprivate 3, copyin 4, copyprivate 4, lastprivate 5, reduction 5,
\* shared, flush, uniform 1), or N + 1 slots for linear and aligned.  Every
\* slot the setters of Create write lies inside that size, and no array
\* overwrites another: each slot is written once and every expression
\* handed to Create is stored.
C23_ClauseFactoriesAgreeOnSize ==
    LET N == Len(ClauseArgs["VL"])
    IN  /\ ClauseEmptyMem # 0 => ClauseEmptyMem = RefClauseSize(N)
        /\ clausePc = "created" =>
               /\ ClauseMem = RefClauseSize(N)
               /\ ClauseEmptyMem # 0 => ClauseMem = ClauseEmptyMem
               /\ \A slot \in DOMAIN Trailing :
                      /\ slot >= 0
                      /\ RefClauseHeader + (slot + 1) * ExprPtrSize
                             <= ClauseMem
               /\ Cardinality(DOMAIN Trailing) = RefClauseSlots(N)
               /\ \A e \in RefHanded :
                      \E slot \in DOMAIN Trailing : Trailing[slot] = e

\* both factories of OMPLastPrivateClause have been called for two
\* variables on a target whose header size is not a multiple of the pointer
\* size, and Create has filled the ten slots
C23_Witness ==
    /\ ClauseKind = "OMPLastPrivateClause"
    /\ clausePc = "created"
    /\ ClauseEmptyMem # 0
    /\ NumVars = 2
    /\ ClauseSizeof % ExprPtrSize # 0
    /\ Cardinality(DOMAIN Trailing) = 10

-----------------------------------------------------------------------------
(* The table in one thread *)

\* the names and sizes of the table
RefNamesAndSizes(table) ==
    [tag \in DOMAIN table |-> <<table[tag].Name, table[tag].Size>>]

\* the step adds n to the counter of the class s and to no other counter
RefCounterAdded(s, n) ==
    \A tag \in DOMAIN StmtClassInfo :
        StmtClassInfo'[tag].Counter =
            StmtClassInfo[tag].Counter + (IF tag = s THEN n ELSE 0)

\* C24: in one thread the first call of getStmtInfoTableEntry builds the
\* table and no later call of getStmtClassName, addStmtClass, PrintStats or
\* EnableStatistics changes a name or a size: once built, every concrete
\* class has its name and a size, for good.  Afterwards only counters
\* change: a step changes at most one counter, that of the class handed to
\* addStmtClass, by exactly 1, and a step that prints changes none.
C24_TableBuiltOnce ==
    /\ [](Initialized =>
             \A tag \in 1..Len(StmtNodes) :
                 /\ StmtClassInfo[tag].Name = StmtNodes[tag]
                 /\ StmtClassInfo[tag].Size # 0)
    /\ [][/\ ~Initialized =>
                (Initialized' \/ RefNamesAndSizes(StmtClassInfo')
                                    = RefNamesAndSizes(StmtClassInfo))
          /\ Initialized =>
                /\ Initialized'
                /\ RefNamesAndSizes(StmtClassInfo')
                       = RefNamesAndSizes(StmtClassInfo)
          /\ \/ RefCounterAdded(0, 0)
             \/ \E s \in 1..Len(StmtNodes) : RefCounterAdded(s, 1)
          /\ StatsPrinted' # StatsPrinted => RefCounterAdded(0, 0)]_vars

\* after the table was built, two nodes of one class have been counted
\* and the statistics printed: two nodes in all
C24_Witness ==
    /\ Initialized
    /\ StatsPrinted.printed
    /\ StatsPrinted.total = 2
    /\ \E s \in 1..Len(StmtNodes) : StmtClassInfo[s].Counter = 2
    /\ LastName = StmtNodes[1]

-----------------------------------------------------------------------------
(* CapturedStmt *)

\* the Capture objects Create has stored
RefCaptureWrites == {w \in CapWrites["Create"] : w.what = "Capture"}

\* C25: for a CapturedStmt with N >= 1 captures the offset getStoredCaptures
\* puts the Capture array at is a multiple of the alignment of Capture and
\* is not below the end of the N + 1 statement slots (N initialisers, then
\* the captured statement), and the N Capture objects end within the size
\* asked for by Create and by CreateDeserialized; the objects Create stores
\* are N, one after the other from that offset, behind every statement
\* slot written.  For N = 0 no Capture object is written.  Create fails an
\* assertion, storing nothing, when the number of initialisers is not the
\* number of captures.
C25_CapturesFit ==
    LET N == Len(Captures)
        offset == FirstCaptureOffset(N)
    IN  /\ N >= 1 =>
               /\ offset % CapLayout.align = 0
               /\ offset >= CapSizeofStmt + (N + 1) * CapPtrSize
               /\ capturedPc = "created" =>
                      offset + N * CapLayout.size <= CapMem["Create"]
               /\ CapDeserialized =>
                      offset + N * CapLayout.size
                          <= CapMem["CreateDeserialized"]
        /\ capturedPc = "created" =>
               /\ {w.at : w \in RefCaptureWrites} =
                      {offset + (I - 1) * CapLayout.size : I \in 1..N}
               /\ \A w \in CapWrites["Create"] :
                      /\ w.at >= CapSizeofStmt
                      /\ w.at + w.size <= CapMem["Create"]
                      /\ w.what # "Capture" => w.at + w.size <= offset
        /\ CapDeserialized =>
               \A w \in CapWrites["CreateDeserialized"] :
                   w.at + w.size <= CapMem["CreateDeserialized"]
        /\ (capturedPc \in {"created", "assert"}
              /\ Len(CaptureInits) # N) =>
               capturedPc = "assert" /\ CapWrites["Create"] = {}

\* both factories have been called for two captures on a target where the
\* statement slots end at an offset that is not a multiple of the alignment
\* of Capture, and Create has stored the two Capture objects
C25_Witness ==
    /\ capturedPc = "created"
    /\ CapDeserialized
    /\ Len(Captures) = 2
    /\ FirstCaptureOffsetUnaligned(2) % CapLayout.align # 0
    /\ Cardinality(RefCaptureWrites) = 2

\* C26: after any sequence of CompoundStmt constructions and setStmts calls
\* a block that holds no statement has a null Body, never an array of no
\* element; and setStmts releases the previous Body, when it is not null,
\* before it allocates the new one, into which it copies the statements it
\* is given, in order.
C26_EmptyBlockHasNullBody ==
    /\ [][setStmts =>
             /\ ContextCalls' =
                    (IF Body.null
                       THEN <<>>
                       ELSE <<[call |-> "Deallocate", arg |-> Body.elts]>>)
                    \o <<[call |-> "new", arg |-> Len(Supplied')]>>
             /\ Body'.elts = Supplied']_vars
    /\ [](compoundPc \in {"CompoundStmt", "setStmts"} /\ NumStmts = 0
             => Body.null)

-----------------------------------------------------------------------------
(* AnalyzeAsmString: what the caller can rely on *)

\* C27: whenever AnalyzeAsmString returns a diagnostic, that is a value
\* other than 0, for a template of length L, the offset it has stored in
\* DiagOffs is at least 0 and less than L: it is the offset of a character
\* of the template.
C27_DiagOffsInsideTemplate ==
    (pc \in {"returned", "generated"} /\ Ret # NoError) =>
        /\ DiagOffs >= 0
        /\ DiagOffs < Len(Str)

\* a template that ends in a modifier has been rejected at its last
\* character
C27_Witness ==
    /\ pc = "returned"
    /\ Ret = err_asm_invalid_escape
    /\ Len(Str) >= 2
    /\ Str[Len(Str) - 1] = "%"
    /\ Str[Len(Str)] = "a"
    /\ DiagOffs = Len(Str) - 1

\* the scan is at a place for which the loop has a case: the end of the
\* template, a character other than "%", a "%" that is the last character,
\* "%%" or "%=", a modifier that is the last character, or an escaped
\* character that has been read
RefPassPossible ==
    \/ CurPtr = StrEnd
    \/ CharAt(CurPtr) # "%"
    \/ CurPtr + 1 = StrEnd
    \/ CharAt(CurPtr + 1) \in {"%", "="}
    \/ HasModifier /\ CurPtr + 2 = StrEnd
    \/ EscapedCharRead

\* C28: AnalyzeAsmString terminates.  On a template that is not simple every
\* pass through the loop either finds the scan position at the end of the
\* template and returns, or moves the scan position forward by at least one
\* character (a digit run and a %[name] reference are stepped over whole)
\* and never beyond the end of the template; while the analysis has not
\* returned the loop has a case for the place the scan is at; so it
\* returns after at most length + 1 passes.
C28_ScanAdvances ==
    /\ [][Scanning =>
             /\ Iterations' = Iterations + 1
             /\ CurPtr' <= Len(Str)
             /\ IF CurPtr = Len(Str)
                  THEN pc' = "returned" /\ CurPtr' = CurPtr
                  ELSE CurPtr' > CurPtr]_vars
    /\ [](/\ Iterations <= Len(Str) + 1
          /\ CurPtr <= Len(Str)
          /\ Scanning => Iterations <= CurPtr /\ RefPassPossible)

\* "%a11%10" has been analysed in three passes: two operand references,
\* each stepped over whole, and the pass that finds the end
C28_Witness ==
    /\ pc = "returned"
    /\ ~isSimple
    /\ Str = <<"%", "a", "1", "1", "%", "1", "0">>
    /\ Ret = NoError
    /\ Iterations = 3
    /\ CurPtr = Len(Str)

\* the offset of the first "]" at or after off
RefClosingBracket(off) ==
    CHOOSE i \in off..(Len(Str) - 1) :
        /\ Str[i + 1] = "]"
        /\ \A j \in off..(i - 1) : Str[j + 1] # "]"

\* the offset of the first character at or after off that is not a digit
RefAfterDigits(off) ==
    CHOOSE i \in off..Len(Str) :
        /\ i = Len(Str) \/ ~isDigit(Str[i + 1])
        /\ \A j \in off..(i - 1) : isDigit(Str[j + 1])

\* the offset of the "[" of the last %[name] or %x[name] of a template that
\* is analysed without error, read from off on; last if there is none
RECURSIVE RefLastSymbolic(_, _)
RefLastSymbolic(off, last) ==
    IF off >= Len(Str) THEN last
    ELSE IF Str[off + 1] # "%" THEN RefLastSymbolic(off + 1, last)
    ELSE IF Str[off + 2] \in {"%", "="} THEN RefLastSymbolic(off + 2, last)
    ELSE LET e == IF isLetter(Str[off + 2]) THEN off + 2 ELSE off + 1
         IN  IF Str[e + 1] = "["
               THEN RefLastSymbolic(RefClosingBracket(e) + 1, e)
               ELSE RefLastSymbolic(RefAfterDigits(e), last)

\* C29: when AnalyzeAsmString returns 0, DiagOffs has been written by the
\* handling of symbolic references only: it still holds the caller's value
\* when the template is simple or has no %[name] reference, and otherwise
\* it holds the offset of the "[" of the last symbolic reference scanned.
C29_SuccessLeavesBracketOffset ==
    (pc \in {"returned", "generated"} /\ Ret = NoError) =>
        IF isSimple \/ RefLastSymbolic(0, -1) = -1
          THEN DiagOffs \in CallerDiagOffs
          ELSE /\ DiagOffs = RefLastSymbolic(0, -1)
               /\ Str[DiagOffs + 1] = "["

\* "%[a]%a[a]" has been analysed without error: DiagOffs is the offset of
\* the second "["
C29_Witness ==
    /\ pc = "returned"
    /\ Ret = NoError
    /\ ~isSimple
    /\ Str = <<"%", "[", "a", "]", "%", "a", "[", "a", "]">>
    /\ DiagOffs = 6

\* C30: generateAsmString never signals an error of the analysis.  When the
\* decomposition of a template that is not simple fails, the pass that
\* returns the diagnostic adds to the pieces nothing but the literal text
\* accumulated so far, and that only when it fails inside an operand
\* reference (the text is flushed before the reference is looked at; a "%"
\* that ends the template returns before the flush); generateAsmString
\* then runs all the same, leaves the diagnostic and the pieces alone, and
\* returns the texts of exactly those pieces, in order.
C30_ErrorsAreDiscarded ==
    /\ [][(Scanning /\ pc' = "returned" /\ Ret' # NoError) =>
             Pieces' =
                 IF AtOperand /\ CurStringPiece # <<>>
                   THEN Pieces \o <<StringPiece(CurStringPiece)>>
                   ELSE Pieces]_vars
    /\ [][(pc = "returned" /\ pc' # pc) =>
             /\ pc' = "generated"
             /\ Pieces' = Pieces
             /\ Ret' = Ret
             /\ DiagOffs' = DiagOffs
             /\ RefIsSerialization(AsmString', Pieces)]_vars
    /\ [](pc = "returned" => ENABLED generateAsmString)

\* "%0a%[]" has failed at the empty name after operand 0 and the text "a",
\* and generateAsmString has returned "$0a"
C30_Witness ==
    /\ pc = "generated"
    /\ ~isSimple
    /\ Str = <<"%", "0", "a", "%", "[", "]">>
    /\ Ret = err_asm_empty_symbolic_operand_name
    /\ Pieces = <<OperandPiece(0, NoModifier), StringPiece(<<"a">>)>>
    /\ AsmString = <<"$", "0", "a">>

=============================================================================
